---- MODULE Spec2Model ----
(***************************************************************************)
(* function-msgraph: the path-addressable document engine (ParseNestedKey, *)
(* SetNestedKey, GetNestedKey, targetHasData) and the RunFunction          *)
(* orchestration around it.                                                *)
(*                                                                         *)
(* Strings that the code inspects character by character (keys, targets,   *)
(* references) are sequences of one-character strings; map keys and        *)
(* scalar contents are TLA+ strings.  A document value is a tagged record  *)
(* [t, v]: the tag is the Go dynamic type the code switches on.            *)
(***************************************************************************)
EXTENDS Integers, Sequences, FiniteSets, TLC

VARIABLES
    req,        \* the RunFunctionRequest of the invocation (never written)
    in,         \* the working *v1beta1.Input (references are substituted into it)
    rsp,        \* the RunFunctionResponse under construction
    pc,         \* position of the invocation inside RunFunction
    trace,      \* the steps of RunFunction completed so far, in order
    query,      \* calls made to f.graphQuery.graphQuery: count, argument, outcome
    ret,        \* the error RunFunction returned, "running" until it returns
    fn,         \* the Function: its graphQuery field (type word, data word) and
                \* the GraphQuery objects whose log field has been written
    prev,       \* what the invocation before this one published, if there was one
    conc,       \* concurrent invocations: position and locals of each of them
    access,     \* concurrent invocations: who read and who wrote each shared field
    accDoc,     \* accessor harness: the map[string]interface{} under test
    accLast,    \* accessor harness: the last call made on accDoc and its outcome
    accOps,     \* accessor harness: number of SetNestedKey calls made so far
    parseKey,   \* parser harness: the key handed to ParseNestedKey
    parseRet    \* parser harness: what ParseNestedKey returned for parseKey

accVars == <<accDoc, accLast, accOps>>

parseVars == <<parseKey, parseRet>>

runVars == <<req, in, rsp, pc, trace, query, ret, fn, prev>>

concVars == <<conc, access>>

vars == <<req, in, rsp, pc, trace, query, ret, fn, prev, conc, access,
          accDoc, accLast, accOps, parseKey, parseRet>>

----------------------------------------------------------------------------
(* Document values                                                         *)

Null    == [t |-> "null", v |-> 0]
Bool(b) == [t |-> "bool", v |-> b]
Num(n)  == [t |-> "num",  v |-> n]
Str(s)  == [t |-> "str",  v |-> s]
Arr(s)  == [t |-> "arr",  v |-> s]
Map(f)  == [t |-> "map",  v |-> f]

\* Go values a query result can hold that are not JSON-shaped:
\* a nil []interface{} and a *string
NilSlice  == [t |-> "nilslice", v |-> 0]
StrPtr(s) == [t |-> "strptr", v |-> s]

EmptyMap == [k \in {} |-> Null]

IsMap(x) == x.t = "map"

IsString(x) == x.t = "str"

\* current[part] = value on a Go map
MapPut(m, k, x) == [j \in (DOMAIN m) \cup {k} |-> IF j = k THEN x ELSE m[j]]

----------------------------------------------------------------------------
(* ParseNestedKey                                                          *)

\* first index at or after i whose character is in stop, Len(s)+1 if none:
\* the end of a greedy run of a negated character class
RECURSIVE classRunEnd(_, _, _)
classRunEnd(s, i, stop) ==
    IF i > Len(s) \/ s[i] \in stop THEN i ELSE classRunEnd(s, i + 1, stop)

\* the Go string made of the given characters
RECURSIVE goString(_)
goString(cs) == IF cs = <<>> THEN "" ELSE Head(cs) \o goString(Tail(cs))

\* mutant: the pattern without its bracket alternative, ([^.\[\]]+) alone
RECURSIVE FindAllStringSubmatch_NoBracket(_, _)
FindAllStringSubmatch_NoBracket(s, i) ==
    IF i > Len(s) THEN <<>>
    ELSE IF s[i] \in {".", "[", "]"}
    THEN FindAllStringSubmatch_NoBracket(s, i + 1)
    ELSE LET j == classRunEnd(s, i, {".", "[", "]"}) IN
         << <<"", goString(SubSeq(s, i, j - 1))>> >>
             \o FindAllStringSubmatch_NoBracket(s, j)

\* regex.FindAllStringSubmatch(key, -1) for \[([^\[\]]+)\]|([^.\[\]]+):
\* the successive leftmost non-overlapping matches, each as <<group1, group2>>
RECURSIVE FindAllStringSubmatch(_, _)
FindAllStringSubmatch(s, i) ==
    IF i > Len(s) THEN <<>>
    ELSE IF s[i] = "["
    THEN LET j == classRunEnd(s, i + 1, {"[", "]"}) IN
         IF j > i + 1 /\ j <= Len(s) /\ s[j] = "]"
         THEN << <<goString(SubSeq(s, i + 1, j - 1)), "">> >>
                  \o FindAllStringSubmatch(s, j + 1)
         ELSE FindAllStringSubmatch(s, i + 1)
    ELSE IF s[i] \in {".", "]"}
    THEN FindAllStringSubmatch(s, i + 1)
    ELSE LET j == classRunEnd(s, i, {".", "[", "]"}) IN
         << <<"", goString(SubSeq(s, i, j - 1))>> >> \o FindAllStringSubmatch(s, j)

RECURSIVE appendMatches(_)
appendMatches(matches) ==
    IF matches = <<>> THEN <<>>
    ELSE LET match == Head(matches) IN
         (IF match[1] # "" THEN <<match[1]>>
          ELSE IF match[2] # "" THEN <<match[2]>>
          ELSE <<>>) \o appendMatches(Tail(matches))

\* mutant: a key without any segment is accepted
ParseNestedKey_EmptyOk(key) ==
    [parts |-> appendMatches(FindAllStringSubmatch(key, 1)), err |-> "nil"]

\* mutant: a key with two dots in a row is refused
ParseNestedKey_RejectsDoubleDot(key) ==
    LET parts == appendMatches(FindAllStringSubmatch(key, 1)) IN
    IF Len(parts) = 0 \/ \E i \in 1..(Len(key) - 1) : key[i] = "." /\ key[i + 1] = "."
    THEN [parts |-> <<>>, err |-> "invalid key"]
    ELSE [parts |-> parts, err |-> "nil"]

ParseNestedKey(key) ==
    LET parts == appendMatches(FindAllStringSubmatch(key, 1)) IN
    IF Len(parts) = 0
    THEN [parts |-> <<>>, err |-> "invalid key"]
    ELSE [parts |-> parts, err |-> "nil"]

----------------------------------------------------------------------------
(* Traversal, SetNestedKey, GetNestedKey, targetHasData                    *)

\* the descent loop shared by GetNestedKey, targetHasData and
\* extractStringArrayFromMap: follow the parts through nested maps
RECURSIVE TraverseParts(_, _)
TraverseParts(currentValue, parts) ==
    IF parts = <<>> THEN [found |-> TRUE, value |-> currentValue, why |-> "nil"]
    ELSE IF IsMap(currentValue)
    THEN IF Head(parts) \in DOMAIN currentValue.v
         THEN TraverseParts(currentValue.v[Head(parts)], Tail(parts))
         ELSE [found |-> FALSE, value |-> Null, why |-> "not found"]
    ELSE [found |-> FALSE, value |-> Null, why |-> "not a map"]

\* mutant: an intermediate key is always given a fresh map, also when it
\* already holds one
RECURSIVE setParts_FreshMap(_, _, _)
setParts_FreshMap(current, parts, value) ==
    LET part == Head(parts) IN
    IF Len(parts) = 1
    THEN [root |-> MapPut(current, part, value), err |-> "nil"]
    ELSE IF part \in DOMAIN current /\ ~IsMap(current[part])
    THEN [root |-> current, err |-> "not a map"]
    ELSE LET r == setParts_FreshMap(EmptyMap, Tail(parts), value) IN
         [root |-> MapPut(current, part, Map(r.root)), err |-> r.err]

\* mutant: an intermediate value that is not a map is replaced by a new map
RECURSIVE setParts_Coerce(_, _, _)
setParts_Coerce(current, parts, value) ==
    LET part == Head(parts) IN
    IF Len(parts) = 1
    THEN [root |-> MapPut(current, part, value), err |-> "nil"]
    ELSE LET r == setParts_Coerce(
                      IF part \in DOMAIN current /\ IsMap(current[part])
                      THEN current[part].v ELSE EmptyMap,
                      Tail(parts), value)
         IN  [root |-> MapPut(current, part, Map(r.root)), err |-> r.err]

\* the loop of SetNestedKey on the map current; root is returned as the loop
\* leaves it (Go maps are mutated in place, also when an error is returned)
RECURSIVE setParts(_, _, _)
setParts(current, parts, value) ==
    LET part == Head(parts) IN
    IF Len(parts) = 1
    THEN [root |-> MapPut(current, part, value), err |-> "nil"]
    ELSE IF part \in DOMAIN current
    THEN IF IsMap(current[part])
         THEN LET r == setParts(current[part].v, Tail(parts), value) IN
              [root |-> MapPut(current, part, Map(r.root)), err |-> r.err]
         ELSE [root |-> current, err |-> "not a map"]
    ELSE LET r == setParts(EmptyMap, Tail(parts), value) IN
         [root |-> MapPut(current, part, Map(r.root)), err |-> r.err]

\* mutant: the missing maps of the path are created before the types of the
\* existing values are looked at
SetNestedKey_CreatesFirst(root, key, value) ==
    LET p == ParseNestedKey(key) IN
    IF p.err # "nil" THEN [root |-> MapPut(root, goString(key), Map(EmptyMap)), err |-> p.err]
    ELSE LET r == setParts(root, p.parts, value) IN
         IF r.err = "nil" THEN r
         ELSE [root |-> setParts_Coerce(root, SubSeq(p.parts, 1, Len(p.parts) - 1),
                                        Map(EmptyMap)).root,
               err |-> r.err]

SetNestedKey(root, key, value) ==
    LET p == ParseNestedKey(key) IN
    IF p.err # "nil" THEN [root |-> root, err |-> p.err]
    ELSE setParts(root, p.parts, value)

\* mutant: a leaf of any type is returned, as the empty string when it is not
\* a string
GetNestedKey_AnyLeaf(context, key) ==
    LET p == ParseNestedKey(key) IN
    IF p.err # "nil" THEN [value |-> "", ok |-> FALSE]
    ELSE LET r == TraverseParts(Map(context), p.parts) IN
         IF r.found
         THEN [value |-> IF r.value.t = "str" THEN r.value.v ELSE "", ok |-> TRUE]
         ELSE [value |-> "", ok |-> FALSE]

GetNestedKey(context, key) ==
    LET p == ParseNestedKey(key) IN
    IF p.err # "nil" THEN [value |-> "", ok |-> FALSE]
    ELSE LET r == TraverseParts(Map(context), p.parts) IN
         IF r.found /\ r.value.t = "str"
         THEN [value |-> r.value.v, ok |-> TRUE]
         ELSE [value |-> "", ok |-> FALSE]

\* mutant: zero values (0, false) count as no data
hasMeaningfulData_ZeroIsEmpty(currentValue) ==
    IF currentValue.t = "null" THEN FALSE
    ELSE IF currentValue.t = "map" THEN Cardinality(DOMAIN currentValue.v) > 0
    ELSE IF currentValue.t = "arr" THEN Len(currentValue.v) > 0
    ELSE IF currentValue.t = "nilslice" THEN FALSE
    ELSE IF currentValue.t = "str" THEN currentValue.v # ""
    ELSE IF currentValue.t = "num" THEN currentValue.v # 0
    ELSE IF currentValue.t = "bool" THEN currentValue.v
    ELSE TRUE

\* mutant: a key that is present with anything but null holds data
hasMeaningfulData_PresentIsData(currentValue) ==
    currentValue.t # "null"

\* the classification at the end of targetHasData
hasMeaningfulData(currentValue) ==
    IF currentValue.t = "null" THEN FALSE
    ELSE IF currentValue.t = "map" THEN Cardinality(DOMAIN currentValue.v) > 0
    ELSE IF currentValue.t = "arr" THEN Len(currentValue.v) > 0
    ELSE IF currentValue.t = "nilslice" THEN FALSE
    ELSE IF currentValue.t = "str" THEN currentValue.v # ""
    ELSE TRUE

\* mutant: a key that does not parse counts as data
targetHasData_InvalidKeyHasData(data, key) ==
    LET p == ParseNestedKey(key) IN
    IF p.err # "nil" THEN [hasData |-> TRUE, err |-> p.err]
    ELSE LET r == TraverseParts(Map(data), p.parts) IN
         IF ~r.found THEN [hasData |-> FALSE, err |-> "nil"]
         ELSE [hasData |-> hasMeaningfulData(r.value), err |-> "nil"]

targetHasData(data, key) ==
    LET p == ParseNestedKey(key) IN
    IF p.err # "nil" THEN [hasData |-> FALSE, err |-> p.err]
    ELSE LET r == TraverseParts(Map(data), p.parts) IN
         IF ~r.found THEN [hasData |-> FALSE, err |-> "nil"]
         ELSE [hasData |-> hasMeaningfulData(r.value), err |-> "nil"]

----------------------------------------------------------------------------
(* Go strings as character sequences                                       *)

HasPrefix(s, prefix) ==
    Len(s) >= Len(prefix) /\ SubSeq(s, 1, Len(prefix)) = prefix

TrimPrefix(s, prefix) ==
    IF HasPrefix(s, prefix) THEN SubSeq(s, Len(prefix) + 1, Len(s)) ELSE s

StatusPrefix  == <<"s", "t", "a", "t", "u", "s", ".">>
ContextPrefix == <<"c", "o", "n", "t", "e", "x", "t", ".">>
SpecPrefix    == <<"s", "p", "e", "c", ".">>

----------------------------------------------------------------------------
(* Conversions of Go values into documents                                 *)

\* fieldpath SetValue stores the JSON round trip of the value it is given
RECURSIVE toValidJSON(_)
toValidJSON(x) ==
    IF x.t = "nilslice" THEN Null
    ELSE IF x.t = "strptr" THEN Str(x.v)
    ELSE IF x.t = "arr" THEN Arr([i \in 1..Len(x.v) |-> toValidJSON(x.v[i])])
    ELSE IF x.t = "map" THEN Map([k \in DOMAIN x.v |-> toValidJSON(x.v[k])])
    ELSE x

\* structpb.NewValue accepts nil, bool, numbers, string, []interface{} and
\* map[string]interface{} only
RECURSIVE structpbAccepts(_)
structpbAccepts(x) ==
    IF x.t = "strptr" THEN FALSE
    ELSE IF x.t = "arr" THEN \A i \in 1..Len(x.v) : structpbAccepts(x.v[i])
    ELSE IF x.t = "map" THEN \A k \in DOMAIN x.v : structpbAccepts(x.v[k])
    ELSE TRUE

\* structpb.NewValue(x).AsInterface(): a nil slice comes back as an empty list
RECURSIVE structpbAsInterface(_)
structpbAsInterface(x) ==
    IF x.t = "nilslice" THEN Arr(<<>>)
    ELSE IF x.t = "arr" THEN Arr([i \in 1..Len(x.v) |-> structpbAsInterface(x.v[i])])
    ELSE IF x.t = "map" THEN Map([k \in DOMAIN x.v |-> structpbAsInterface(x.v[k])])
    ELSE x

\* req.GetContext().AsMap(): a nil *structpb.Struct reads as an empty map
AsMap(context) == IF context.t = "map" THEN context.v ELSE EmptyMap

----------------------------------------------------------------------------
(* Composite resources: the unstructured object is a map with the          *)
(* top-level fields kind, spec and status.                                 *)

GetKind(xr) ==
    IF "kind" \in DOMAIN xr /\ xr["kind"].t = "str" THEN xr["kind"].v ELSE ""

\* Resource.GetValueInto(field, &out) for an out of type map[string]interface{}
GetValueInto(xr, field) ==
    IF field \in DOMAIN xr /\ IsMap(xr[field])
    THEN [out |-> xr[field].v, err |-> "nil"]
    ELSE [out |-> EmptyMap, err |-> "no such field"]

\* Resource.SetValue(field, value)
SetValue(xr, field, value) == MapPut(xr, field, toValidJSON(value))

\* request.GetObservedCompositeResource and GetDesiredCompositeResource hand
\* the content of the request to an unstructured object, which cannot fail
getObservedAndDesired(r) == [oxr |-> r.observed, dxr |-> r.desired, err |-> "nil"]

initializeAndCopyData(oxr, dxr) ==
    LET dxr1 == IF GetKind(dxr) = ""
                THEN MapPut(dxr, "kind", Str(GetKind(oxr)))
                ELSE dxr
        xrSpec == GetValueInto(oxr, "spec")
    IN  IF xrSpec.err = "nil" /\ Cardinality(DOMAIN xrSpec.out) > 0
        THEN SetValue(dxr1, "spec", Map(xrSpec.out))
        ELSE dxr1

\* mutant: the observed status is preferred to the desired status
getStatusFromResources_ObservedFirst(oxr, dxr) ==
    LET d == GetValueInto(dxr, "status")
        o == GetValueInto(oxr, "status")
    IN  IF o.err = "nil" /\ Cardinality(DOMAIN o.out) > 0
        THEN o.out
        ELSE d.out

getStatusFromResources(oxr, dxr) ==
    LET d == GetValueInto(dxr, "status")
        o == GetValueInto(oxr, "status")
    IN  IF GetKind(dxr) # "" /\ d.err = "nil" /\ Cardinality(DOMAIN d.out) > 0
        THEN d.out
        ELSE o.out

getXRAndStatus(r) ==
    LET od  == getObservedAndDesired(r)
        dxr == initializeAndCopyData(od.oxr, od.dxr)
    IN  IF od.err # "nil"
        THEN [xrStatus |-> EmptyMap, dxr |-> EmptyMap, err |-> od.err]
        ELSE [xrStatus |-> getStatusFromResources(od.oxr, dxr), dxr |-> dxr,
              err |-> "nil"]

----------------------------------------------------------------------------
(* The response                                                            *)

Fatal(r, msg) ==
    [r EXCEPT !.results = Append(@, [severity |-> "FATAL", message |-> msg])]

Normal(r, msg) ==
    [r EXCEPT !.results = Append(@, [severity |-> "NORMAL", message |-> msg])]

ConditionTrue(r, type, reason) ==
    [r EXCEPT !.conditions =
        Append(@, [type |-> type, status |-> TRUE, reason |-> reason])]

\* response.To: the response starts from the request's desired state
ResponseTo(r) ==
    [desired |-> r.desired, context |-> Null, results |-> <<>>, conditions |-> <<>>]

propagateDesiredXR(r, response) ==
    LET g   == getXRAndStatus(r)
        dxr == IF Cardinality(DOMAIN g.xrStatus) > 0
               THEN SetValue(g.dxr, "status", Map(g.xrStatus))
               ELSE g.dxr
    IN  IF g.err # "nil" THEN Fatal(response, g.err)
        ELSE [response EXCEPT !.desired = dxr]

\* mutant: the context of the request is not copied to the response
preserveContext_Drops(r, response) == response

preserveContext(r, response) ==
    IF r.context # Null THEN [response EXCEPT !.context = r.context] ELSE response

initializeResponse(r, response) ==
    IF getXRAndStatus(r).err # "nil"
    THEN propagateDesiredXR(r, response)
    ELSE preserveContext(r, propagateDesiredXR(r, response))

HasFatal(response) ==
    \E i \in 1..Len(response.results) : response.results[i].severity = "FATAL"

HasCondition(response, type) ==
    \E i \in 1..Len(response.conditions) :
        response.conditions[i].type = type /\ response.conditions[i].status

----------------------------------------------------------------------------
(* Skip decision                                                           *)

\* mutant: a target under spec. is accepted as well
isValidTarget_AcceptsSpec(target) ==
    \/ HasPrefix(target, StatusPrefix)
    \/ HasPrefix(target, ContextPrefix)
    \/ HasPrefix(target, SpecPrefix)

isValidTarget(target) ==
    HasPrefix(target, StatusPrefix) \/ HasPrefix(target, ContextPrefix)

SkipMessage(response) == ConditionTrue(response, "FunctionSkip", "SkippedQuery")

\* mutant: the test on hasData is inverted
checkStatusTargetHasData_Inverted(r, input, response) ==
    LET g == getXRAndStatus(r)
        statusField == TrimPrefix(input.target, StatusPrefix)
    IN  IF ~targetHasData(g.xrStatus, statusField).hasData
        THEN [skip |-> TRUE, rsp |-> SkipMessage(response)]
        ELSE [skip |-> FALSE, rsp |-> response]

\* mutant: the error path is taken whatever getXRAndStatus returns
checkStatusTargetHasData_ErrorPath(r, input, response) ==
    [skip |-> TRUE, rsp |-> Fatal(response, "cannot get observed composite resource")]

\* mutant: data at the target in either status document skips the query
checkStatusTargetHasData_EitherStatus(r, input, response) ==
    LET statusField == TrimPrefix(input.target, StatusPrefix)
        has(xr) == "status" \in DOMAIN xr /\ IsMap(xr["status"])
                   /\ targetHasData(xr["status"].v, statusField).hasData
    IN  IF has(r.desired) \/ has(r.observed)
        THEN [skip |-> TRUE, rsp |-> SkipMessage(response)]
        ELSE [skip |-> FALSE, rsp |-> response]

checkStatusTargetHasData(r, input, response) ==
    LET g == getXRAndStatus(r)
        statusField == TrimPrefix(input.target, StatusPrefix)
    IN  IF g.err # "nil"
        THEN [skip |-> TRUE, rsp |-> Fatal(response, g.err)]
        ELSE IF targetHasData(g.xrStatus, statusField).hasData
        THEN [skip |-> TRUE, rsp |-> SkipMessage(response)]
        ELSE [skip |-> FALSE, rsp |-> response]

checkContextTargetHasData(r, input, response) ==
    LET contextMap == AsMap(r.context)
        contextField == TrimPrefix(input.target, ContextPrefix)
    IN  IF targetHasData(contextMap, contextField).hasData
        THEN [skip |-> TRUE, rsp |-> SkipMessage(response)]
        ELSE [skip |-> FALSE, rsp |-> response]

\* mutant: the flag defaults to true when it is absent
shouldSkipQuery_DefaultTrue(r, input, response) ==
    LET shouldSkipQueryWhenTargetHasData ==
            IF input.skipQueryWhenTargetHasData # Null
            THEN input.skipQueryWhenTargetHasData.v
            ELSE TRUE
    IN  IF ~shouldSkipQueryWhenTargetHasData
        THEN [skip |-> FALSE, rsp |-> response]
        ELSE IF HasPrefix(input.target, StatusPrefix)
        THEN checkStatusTargetHasData(r, input, response)
        ELSE IF HasPrefix(input.target, ContextPrefix)
        THEN checkContextTargetHasData(r, input, response)
        ELSE [skip |-> FALSE, rsp |-> response]

shouldSkipQuery(r, input, response) ==
    LET shouldSkipQueryWhenTargetHasData ==
            IF input.skipQueryWhenTargetHasData # Null
            THEN input.skipQueryWhenTargetHasData.v
            ELSE FALSE
    IN  IF ~shouldSkipQueryWhenTargetHasData
        THEN [skip |-> FALSE, rsp |-> response]
        ELSE IF HasPrefix(input.target, StatusPrefix)
        THEN checkStatusTargetHasData(r, input, response)
        ELSE IF HasPrefix(input.target, ContextPrefix)
        THEN checkContextTargetHasData(r, input, response)
        ELSE [skip |-> FALSE, rsp |-> response]

----------------------------------------------------------------------------
(* Reference resolution                                                    *)

resolveFromStatus(r, refKey) ==
    LET g == getXRAndStatus(r)
        v == GetNestedKey(g.xrStatus, TrimPrefix(refKey, StatusPrefix))
    IN  IF g.err # "nil" THEN [value |-> "", err |-> "cannot get XR status"]
        ELSE IF ~v.ok THEN [value |-> "", err |-> "cannot resolve groupRef: not found"]
        ELSE [value |-> v.value, err |-> "nil"]

resolveFromContext(r, refKey) ==
    LET v == GetNestedKey(AsMap(r.context), TrimPrefix(refKey, ContextPrefix))
    IN  IF ~v.ok THEN [value |-> "", err |-> "cannot resolve groupRef: not found"]
        ELSE [value |-> v.value, err |-> "nil"]

resolveFromSpec(r, refKey) ==
    LET g == getXRAndStatus(r)
        xrSpec == GetValueInto(g.dxr, "spec")
        v == GetNestedKey(xrSpec.out, TrimPrefix(refKey, SpecPrefix))
    IN  IF g.err # "nil" THEN [value |-> "", err |-> "cannot get XR status and desired XR"]
        ELSE IF xrSpec.err # "nil" THEN [value |-> "", err |-> "cannot get XR spec"]
        ELSE IF ~v.ok THEN [value |-> "", err |-> "cannot resolve groupRef: not found"]
        ELSE [value |-> v.value, err |-> "nil"]

\* mutant: the root of the reference is compared without regard to case
resolveGroupRef_CaseInsensitive(r, groupRef) ==
    LET lower == IF groupRef = Null THEN <<>>
                 ELSE [i \in 1..Len(groupRef.v) |->
                          IF groupRef.v[i] = "S" THEN "s" ELSE groupRef.v[i]]
    IN  IF groupRef = Null \/ groupRef.v = <<>>
        THEN [value |-> "", err |-> "empty groupRef provided"]
        ELSE IF HasPrefix(lower, StatusPrefix) THEN resolveFromStatus(r, lower)
        ELSE IF HasPrefix(lower, ContextPrefix) THEN resolveFromContext(r, lower)
        ELSE IF HasPrefix(lower, SpecPrefix) THEN resolveFromSpec(r, lower)
        ELSE [value |-> "", err |-> "unsupported groupRef format"]

\* groupRef is a *string: Null or Str(characters)
resolveGroupRef(r, groupRef) ==
    IF groupRef = Null \/ groupRef.v = <<>>
    THEN [value |-> "", err |-> "empty groupRef provided"]
    ELSE IF HasPrefix(groupRef.v, StatusPrefix) THEN resolveFromStatus(r, groupRef.v)
    ELSE IF HasPrefix(groupRef.v, ContextPrefix) THEN resolveFromContext(r, groupRef.v)
    ELSE IF HasPrefix(groupRef.v, SpecPrefix) THEN resolveFromSpec(r, groupRef.v)
    ELSE [value |-> "", err |-> "unsupported groupRef format"]

\* the strings of a []interface{}, in order
RECURSIVE stringsOf(_)
stringsOf(strArray) ==
    IF strArray = <<>> THEN <<>>
    ELSE (IF Head(strArray).t = "str" THEN <<Head(strArray)>> ELSE <<>>)
             \o stringsOf(Tail(strArray))

\* mutant: an array without any string is returned as an empty list
extractStringArrayFromMap_EmptyOk(dataMap, field) ==
    LET p == ParseNestedKey(field) IN
    IF p.err # "nil" THEN [result |-> <<>>, err |-> "invalid field key"]
    ELSE LET w == TraverseParts(Map(dataMap), p.parts) IN
         IF ~w.found
         THEN [result |-> <<>>, err |-> "cannot resolve groupsRef: " \o w.why]
         ELSE IF w.value.t = "arr"
         THEN [result |-> stringsOf(w.value.v), err |-> "nil"]
         ELSE [result |-> <<>>,
               err |-> "cannot resolve groupsRef: not a string array or empty"]

extractStringArrayFromMap(dataMap, field) ==
    LET p == ParseNestedKey(field) IN
    IF p.err # "nil" THEN [result |-> <<>>, err |-> "invalid field key"]
    ELSE LET w == TraverseParts(Map(dataMap), p.parts) IN
         IF ~w.found
         THEN [result |-> <<>>, err |-> "cannot resolve groupsRef: " \o w.why]
         ELSE LET result == IF w.value.t = "arr" THEN stringsOf(w.value.v) ELSE <<>>
              IN  IF Len(result) > 0
                  THEN [result |-> result, err |-> "nil"]
                  ELSE [result |-> <<>>,
                        err |-> "cannot resolve groupsRef: not a string array or empty"]

resolveStringArrayFromStatus(r, refKey) ==
    IF getXRAndStatus(r).err # "nil" THEN [result |-> <<>>, err |-> "cannot get XR status"]
    ELSE extractStringArrayFromMap(getXRAndStatus(r).xrStatus,
                                   TrimPrefix(refKey, StatusPrefix))

resolveStringArrayFromContext(r, refKey) ==
    extractStringArrayFromMap(AsMap(r.context), TrimPrefix(refKey, ContextPrefix))

resolveStringArrayFromSpec(r, refKey) ==
    LET xrSpec == GetValueInto(getXRAndStatus(r).dxr, "spec") IN
    IF getXRAndStatus(r).err # "nil"
    THEN [result |-> <<>>, err |-> "cannot get XR status and desired XR"]
    ELSE IF xrSpec.err # "nil" THEN [result |-> <<>>, err |-> "cannot get XR spec"]
    ELSE extractStringArrayFromMap(xrSpec.out, TrimPrefix(refKey, SpecPrefix))

resolveStringArrayRef(r, ref) ==
    IF ref = Null \/ ref.v = <<>>
    THEN [result |-> <<>>, err |-> "empty ref provided"]
    ELSE IF HasPrefix(ref.v, StatusPrefix) THEN resolveStringArrayFromStatus(r, ref.v)
    ELSE IF HasPrefix(ref.v, ContextPrefix) THEN resolveStringArrayFromContext(r, ref.v)
    ELSE IF HasPrefix(ref.v, SpecPrefix) THEN resolveStringArrayFromSpec(r, ref.v)
    ELSE [result |-> <<>>, err |-> "unsupported ref format"]

RefAbsent(ref) == ref = Null \/ ref.v = <<>>

\* each process*Ref returns the input after substitution, the response and
\* whether RunFunction goes on
\* mutant: the error of resolveGroupRef is dropped
processGroupRef_IgnoresError(r, input, response) ==
    IF RefAbsent(input.groupRef) THEN [ok |-> TRUE, in |-> input, rsp |-> response]
    ELSE LET g == resolveGroupRef(r, input.groupRef) IN
         [ok |-> TRUE, in |-> [input EXCEPT !.group = Str(g.value)], rsp |-> response]

processGroupRef(r, input, response) ==
    IF RefAbsent(input.groupRef) THEN [ok |-> TRUE, in |-> input, rsp |-> response]
    ELSE LET g == resolveGroupRef(r, input.groupRef) IN
         IF g.err # "nil"
         THEN [ok |-> FALSE, in |-> input, rsp |-> Fatal(response, g.err)]
         ELSE [ok |-> TRUE, in |-> [input EXCEPT !.group = Str(g.value)], rsp |-> response]

processGroupsRef(r, input, response) ==
    IF RefAbsent(input.groupsRef) THEN [ok |-> TRUE, in |-> input, rsp |-> response]
    ELSE LET g == resolveStringArrayRef(r, input.groupsRef) IN
         IF g.err # "nil"
         THEN [ok |-> FALSE, in |-> input, rsp |-> Fatal(response, g.err)]
         ELSE [ok |-> TRUE, in |-> [input EXCEPT !.groups = Arr(g.result)], rsp |-> response]

\* mutant: the reference is resolved but the users of the input are kept
processUsersRef_KeepsLiteral(r, input, response) ==
    IF RefAbsent(input.usersRef) THEN [ok |-> TRUE, in |-> input, rsp |-> response]
    ELSE LET g == resolveStringArrayRef(r, input.usersRef) IN
         IF g.err # "nil"
         THEN [ok |-> FALSE, in |-> input, rsp |-> Fatal(response, g.err)]
         ELSE [ok |-> TRUE, in |-> input, rsp |-> response]

processUsersRef(r, input, response) ==
    IF RefAbsent(input.usersRef) THEN [ok |-> TRUE, in |-> input, rsp |-> response]
    ELSE LET g == resolveStringArrayRef(r, input.usersRef) IN
         IF g.err # "nil"
         THEN [ok |-> FALSE, in |-> input, rsp |-> Fatal(response, g.err)]
         ELSE [ok |-> TRUE, in |-> [input EXCEPT !.users = Arr(g.result)], rsp |-> response]

processServicePrincipalsRef(r, input, response) ==
    IF RefAbsent(input.servicePrincipalsRef)
    THEN [ok |-> TRUE, in |-> input, rsp |-> response]
    ELSE LET g == resolveStringArrayRef(r, input.servicePrincipalsRef) IN
         IF g.err # "nil"
         THEN [ok |-> FALSE, in |-> input, rsp |-> Fatal(response, g.err)]
         ELSE [ok |-> TRUE, in |-> [input EXCEPT !.servicePrincipals = Arr(g.result)],
               rsp |-> response]

\* mutant: every reference field is processed, whatever the query type
processReferences_AllRefs(r, input, response) ==
    LET g == processGroupRef(r, input, response) IN
    IF ~g.ok THEN g
    ELSE LET gs == processGroupsRef(r, g.in, g.rsp) IN
         IF ~gs.ok THEN gs
         ELSE LET u == processUsersRef(r, gs.in, gs.rsp) IN
              IF ~u.ok THEN u
              ELSE processServicePrincipalsRef(r, u.in, u.rsp)

processReferences(r, input, response) ==
    IF input.queryType = "GroupMembership" THEN processGroupRef(r, input, response)
    ELSE IF input.queryType = "GroupObjectIDs" THEN processGroupsRef(r, input, response)
    ELSE IF input.queryType = "UserValidation" THEN processUsersRef(r, input, response)
    ELSE IF input.queryType = "ServicePrincipalDetails"
    THEN processServicePrincipalsRef(r, input, response)
    ELSE [ok |-> TRUE, in |-> input, rsp |-> response]

----------------------------------------------------------------------------
(* Publishing the result                                                   *)

putQueryResultToStatus(r, response, input, results) ==
    LET g == getXRAndStatus(r)
        statusField == TrimPrefix(input.target, StatusPrefix)
        s == SetNestedKey(g.xrStatus, statusField, results)
    IN  IF g.err # "nil" THEN [rsp |-> response, err |-> g.err]
        ELSE IF s.err # "nil"
        THEN [rsp |-> response, err |-> "cannot set status field: " \o s.err]
        ELSE [rsp |-> [response EXCEPT
                          !.desired = SetValue(g.dxr, "status", Map(s.root))],
              err |-> "nil"]

\* mutant: the context is written before the errors are looked at
putQueryResultToContext_WritesFirst(r, response, input, results) ==
    LET contextField == TrimPrefix(input.target, ContextPrefix)
        contextMap == AsMap(r.context)
        s == SetNestedKey(contextMap, contextField, structpbAsInterface(results))
        written == [response EXCEPT !.context = Map(s.root)]
    IN  IF ~structpbAccepts(results)
        THEN [rsp |-> written, err |-> "cannot convert results data to structpb.Value"]
        ELSE IF s.err # "nil"
        THEN [rsp |-> written, err |-> "failed to update context key: " \o s.err]
        ELSE [rsp |-> written, err |-> "nil"]

putQueryResultToContext(r, response, input, results) ==
    LET contextField == TrimPrefix(input.target, ContextPrefix)
        contextMap == AsMap(r.context)
        s == SetNestedKey(contextMap, contextField, structpbAsInterface(results))
    IN  IF ~structpbAccepts(results)
        THEN [rsp |-> response, err |-> "cannot convert results data to structpb.Value"]
        ELSE IF s.err # "nil"
        THEN [rsp |-> response, err |-> "failed to update context key: " \o s.err]
        ELSE [rsp |-> [response EXCEPT !.context = Map(s.root)], err |-> "nil"]

processResults(r, input, results, response) ==
    IF HasPrefix(input.target, StatusPrefix)
    THEN LET p == putQueryResultToStatus(r, response, input, results) IN
         IF p.err # "nil" THEN [rsp |-> Fatal(p.rsp, p.err), err |-> p.err] ELSE p
    ELSE IF HasPrefix(input.target, ContextPrefix)
    THEN LET p == putQueryResultToContext(r, response, input, results) IN
         IF p.err # "nil" THEN [rsp |-> Fatal(p.rsp, p.err), err |-> p.err] ELSE p
    ELSE [rsp |-> Fatal(response, "Unrecognized target field"),
          err |-> "unrecognized target field"]

----------------------------------------------------------------------------
(* Requests                                                                *)

XRKind == "kind" :> Str("XR")

ObservedSpecs == { EmptyMap, "spec" :> Map("a" :> Str("dev")) }

DesiredSpecs == { EmptyMap, "spec" :> Map("a" :> Str("ops")) }

StatusDocs ==
    { EmptyMap,
      "status" :> Map(("a" :> Str("dev")) @@ ("z" :> Num(0))),
      "status" :> Map("a" :> Map(("b" :> Arr(<<>>)) @@ ("k" :> Num(1)))) }

ObservedXRs == { XRKind @@ sp @@ st : sp \in ObservedSpecs, st \in StatusDocs }

\* no desired composite yet, or the one left by the previous pipeline steps
DesiredXRs ==
    { EmptyMap } \cup { XRKind @@ sp @@ st : sp \in DesiredSpecs, st \in StatusDocs }

Contexts ==
    { Null,
      Map(("a./b" :> Map("c" :> Arr(<<Str("u"), Num(1)>>))) @@ ("o" :> Str("keep"))),
      Map("a./b" :> Str("x")) }

Targets ==
    { StatusPrefix \o <<"a">>,
      StatusPrefix \o <<"a", ".", "b">>,
      ContextPrefix \o <<"[", "a", ".", "/", "b", "]", ".", "c">>,
      StatusPrefix,
      SpecPrefix \o <<"a">>,
      <<>> }

QueryTypes == { "GroupMembership", "UserValidation", "GroupObjectIDs" }

GroupRefs ==
    { Null, Str(StatusPrefix \o <<"a">>), Str(SpecPrefix \o <<"a">>), Str(<<"x", ".", "a">>) }

UsersRefs == { Null, Str(ContextPrefix \o <<"[", "a", ".", "/", "b", "]", ".", "c">>) }

SkipFlags == { Null, Bool(FALSE), Bool(TRUE) }

AllInputs ==
    [ queryType : QueryTypes,
      target : Targets,
      skipQueryWhenTargetHasData : SkipFlags,
      group : {Str("lit")},
      groupRef : GroupRefs,
      users : {Arr(<<Str("lit")>>)},
      usersRef : UsersRefs,
      groups : {Null},
      groupsRef : {Null},
      servicePrincipals : {Null},
      servicePrincipalsRef : {Null} ]

\* a GroupMembership input carries any of the references; a UserValidation
\* input its usersRef and at most a groupRef nothing resolves; a
\* GroupObjectIDs input, whose groupsRef is absent, carries none
Inputs ==
    { i \in AllInputs :
         \/ i.queryType = "GroupMembership"
         \/ i.queryType = "UserValidation"
              /\ i.groupRef \in {Null, Str(<<"x", ".", "a">>)}
         \/ i.queryType = "GroupObjectIDs"
              /\ i.groupRef = Null /\ i.usersRef = Null }

\* the inputs of the requests that come without credentials
PlainInputs == { i \in Inputs : i.groupRef = Null /\ i.usersRef = Null }

\* further references, on inputs that publish to status.a without the skip flag
MoreGroupRefs ==
    { Str(ContextPrefix \o <<"o">>),
      Str(ContextPrefix \o <<"[", "a", ".", "/", "b", "]">>),
      Str(<<"S", "t", "a", "t", "u", "s", ".", "a">>) }

MoreUsersRefs ==
    { Str(StatusPrefix \o <<"a", ".", "b">>),
      Str(SpecPrefix \o <<"a">>),
      Str(<<"S", "t", "a", "t", "u", "s", ".", "a">>) }

RefInputs ==
    [ queryType : QueryTypes,
      target : {StatusPrefix \o <<"a">>},
      skipQueryWhenTargetHasData : {Null},
      group : {Str("lit")},
      groupRef : MoreGroupRefs,
      users : {Arr(<<Str("lit")>>)},
      usersRef : MoreUsersRefs,
      groups : {Null},
      groupsRef : {Null},
      servicePrincipals : {Null},
      servicePrincipalsRef : {Null} ]

\* inputs whose target is a root prefix with nothing after it
EmptyPathInputs ==
    [ queryType : {"UserValidation"},
      target : {ContextPrefix},
      skipQueryWhenTargetHasData : SkipFlags,
      group : {Str("lit")},
      groupRef : {Null},
      users : {Arr(<<Str("lit")>>)},
      usersRef : {Null},
      groups : {Null},
      groupsRef : {Null},
      servicePrincipals : {Null},
      servicePrincipalsRef : {Null} ]

\* what request.GetInput leaves in the Input when it fails
NoInput ==
    [ queryType |-> "", target |-> <<>>, skipQueryWhenTargetHasData |-> Null,
      group |-> Null, groupRef |-> Null, users |-> Null, usersRef |-> Null,
      groups |-> Null, groupsRef |-> Null,
      servicePrincipals |-> Null, servicePrincipalsRef |-> Null ]

Requests ==
    [ observed : ObservedXRs, desired : DesiredXRs, context : Contexts,
      credentials : {TRUE}, inputValid : {TRUE},
      input : Inputs \cup RefInputs \cup EmptyPathInputs ]
    \cup
    [ observed : ObservedXRs, desired : DesiredXRs, context : Contexts,
      credentials : {FALSE}, inputValid : {TRUE}, input : PlainInputs ]
    \cup
    [ observed : ObservedXRs, desired : DesiredXRs, context : Contexts,
      credentials : BOOLEAN, inputValid : {FALSE}, input : {NoInput} ]

\* what graphQuery can return as results
QueryResults ==
    { NilSlice, Arr(<<>>), Arr(<<Map("id" :> Str("u1"))>>),
      Arr(<<Map("id" :> StrPtr("u1"))>>) }

----------------------------------------------------------------------------
(* RunFunction, step by step                                               *)

NoResponse == [desired |-> EmptyMap, context |-> Null, results |-> <<>>, conditions |-> <<>>]

NoQuery == [calls |-> 0, arg |-> NoInput, results |-> Null, err |-> "nil"]

\* the Function as the server constructs it: &Function{log: log}.  The
\* graphQuery field is an interface value, a type word and a data word; ptr
\* names the object the data word points to (0 is the nil pointer), log is
\* the set of GraphQuery objects whose log field has been assigned.
NewFunction == [typ |-> "nil", ptr |-> 0, log |-> {}]

\* if f.graphQuery == nil { f.graphQuery = &GraphQuery{} }, by invocation id
newGraphQueryIfNil(f, id) ==
    IF f.typ = "nil" THEN [f EXCEPT !.typ = "GraphQuery", !.ptr = id] ELSE f

\* if gq, ok := f.graphQuery.(*GraphQuery); ok { gq.log = f.log }
setGraphQueryLog(f) ==
    IF f.typ = "GraphQuery" THEN [f EXCEPT !.log = @ \cup {f.ptr}] ELSE f

\* no invocation came before this one
NoPrev == [gen |-> 0, V |-> Null, status |-> EmptyMap]

NoRequest ==
    [ observed |-> EmptyMap, desired |-> EmptyMap, context |-> Null,
      credentials |-> FALSE, inputValid |-> FALSE, input |-> NoInput ]

\* no invocation at all: the state of the run variables in the harnesses
RunIdle ==
    /\ req = NoRequest
    /\ in = NoInput
    /\ rsp = NoResponse
    /\ pc = "idle"
    /\ trace = <<>>
    /\ query = NoQuery
    /\ ret = "running"
    /\ fn = NewFunction
    /\ prev = NoPrev

\* no concurrent invocations: the state of conc and access outside SpecConc
ConcIdle ==
    /\ conc = <<>>
    /\ access = {}

AccIdle ==
    /\ accDoc = EmptyMap
    /\ accLast = [op |-> "none", key |-> <<>>, value |-> Null, before |-> EmptyMap,
                  err |-> "nil", hasData |-> FALSE, result |-> <<>>]
    /\ accOps = 0

\* ParseNestedKey has not been called on its own
NotParsed == [called |-> FALSE, parts |-> <<>>, err |-> "nil"]

ParseIdle ==
    /\ parseKey = <<>>
    /\ parseRet = NotParsed

Init ==
    /\ req \in Requests
    /\ in = NoInput
    /\ rsp = NoResponse
    /\ pc = "initializeResponse"
    /\ trace = <<>>
    /\ query = NoQuery
    /\ ret = "running"
    /\ fn = NewFunction
    /\ prev = NoPrev
    /\ ConcIdle
    /\ AccIdle
    /\ ParseIdle

\* mutant: the error of the step that failed is returned by RunFunction
Step_ReturnsError(name, next) ==
    /\ pc = name
    /\ pc' = next
    /\ trace' = Append(trace, name)
    /\ ret' = IF next = "Done" THEN "nil" ELSE IF next = "Failed" THEN "error" ELSE ret
    /\ UNCHANGED <<req, prev, conc, access, accDoc, accLast, accOps, parseKey, parseRet>>

\* one step of RunFunction; every return statement of RunFunction, after a
\* failure as after a success, is return rsp, nil
Step(name, next) ==
    /\ pc = name
    /\ pc' = next
    /\ trace' = Append(trace, name)
    /\ ret' = IF next \in {"Done", "Failed"} THEN "nil" ELSE ret
    /\ UNCHANGED <<req, prev, conc, access, accDoc, accLast, accOps, parseKey, parseRet>>

InitializeResponse ==
    /\ IF getXRAndStatus(req).err # "nil"
       THEN Step("initializeResponse", "Failed")
       ELSE Step("initializeResponse", "parseInputAndCredentials")
    /\ rsp' = initializeResponse(req, ResponseTo(req))
    /\ UNCHANGED <<in, query, fn>>

ParseInputAndCredentials ==
    /\ pc = "parseInputAndCredentials"
    /\ IF ~req.inputValid
       THEN /\ Step("parseInputAndCredentials", "Failed")
            /\ rsp' = Fatal([rsp EXCEPT
                          !.conditions = Append(@, [type |-> "FunctionSuccess",
                                                    status |-> FALSE,
                                                    reason |-> "InternalError"]),
                          !.results = Append(@, [severity |-> "WARNING",
                                                 message |-> "something went wrong"])],
                            "cannot get Function input")
            /\ UNCHANGED <<in, fn>>
       ELSE IF ~req.credentials
       THEN /\ Step("parseInputAndCredentials", "Failed")
            /\ rsp' = Fatal(rsp, "failed to get azure-creds credentials")
            /\ UNCHANGED <<in, fn>>
       ELSE /\ Step("parseInputAndCredentials", "isValidTarget")
            /\ in' = req.input
            /\ fn' = newGraphQueryIfNil(fn, 1)
            /\ UNCHANGED rsp
    /\ UNCHANGED query

IsValidTarget ==
    /\ pc = "isValidTarget"
    /\ IF ~isValidTarget(in.target)
       THEN /\ Step("isValidTarget", "Failed")
            /\ rsp' = Fatal(rsp, "Unrecognized target field")
       ELSE /\ Step("isValidTarget", "shouldSkipQuery")
            /\ UNCHANGED rsp
    /\ UNCHANGED <<in, query, fn>>

\* mutant: a skipped invocation returns without the success condition
ShouldSkipQuery_NoSuccess ==
    /\ pc = "shouldSkipQuery"
    /\ LET s == shouldSkipQuery(req, in, rsp) IN
       IF s.skip
       THEN /\ Step("shouldSkipQuery", "Done")
            /\ rsp' = s.rsp
       ELSE /\ Step("shouldSkipQuery", "processReferences")
            /\ rsp' = s.rsp
    /\ UNCHANGED <<in, query, fn>>

ShouldSkipQuery ==
    /\ pc = "shouldSkipQuery"
    /\ LET s == shouldSkipQuery(req, in, rsp) IN
       IF s.skip
       THEN /\ Step("shouldSkipQuery", "Done")
            /\ rsp' = ConditionTrue(s.rsp, "FunctionSuccess", "Success")
       ELSE /\ Step("shouldSkipQuery", "processReferences")
            /\ rsp' = s.rsp
    /\ UNCHANGED <<in, query, fn>>

ProcessReferences ==
    /\ pc = "processReferences"
    /\ LET p == processReferences(req, in, rsp) IN
       /\ IF p.ok
          THEN Step("processReferences", "executeQuery")
          ELSE Step("processReferences", "Failed")
       /\ in' = p.in
       /\ rsp' = p.rsp
    /\ UNCHANGED <<query, fn>>

\* mutant: the error of graphQuery does not stop the invocation
ExecuteQuery_ErrorIgnored(failed, results) ==
    /\ pc = "executeQuery"
    /\ Step("executeQuery", "processResults")
    /\ rsp' = Normal(rsp, "QueryType")
    /\ query' = [calls |-> query.calls + 1, arg |-> in,
                 results |-> results, err |-> IF failed THEN "query failed" ELSE "nil"]
    /\ fn' = setGraphQueryLog(fn)
    /\ UNCHANGED in

\* mutant: a failed query is tried a second time
ExecuteQuery_Retries(failed, results) ==
    /\ pc = "executeQuery"
    /\ IF failed
       THEN /\ Step("executeQuery", IF query.calls = 0 THEN "executeQuery" ELSE "Failed")
            /\ rsp' = Fatal(rsp, "query failed")
            /\ query' = [calls |-> query.calls + 1, arg |-> in,
                         results |-> Null, err |-> "query failed"]
       ELSE /\ Step("executeQuery", "processResults")
            /\ rsp' = Normal(rsp, "QueryType")
            /\ query' = [calls |-> query.calls + 1, arg |-> in,
                         results |-> results, err |-> "nil"]
    /\ fn' = setGraphQueryLog(fn)
    /\ UNCHANGED in

\* executeQuery: the collaborator answers with an error or with results
ExecuteQuery(failed, results) ==
    /\ pc = "executeQuery"
    /\ IF failed
       THEN /\ Step("executeQuery", "Failed")
            /\ rsp' = Fatal(rsp, "query failed")
            /\ query' = [calls |-> query.calls + 1, arg |-> in,
                         results |-> Null, err |-> "query failed"]
       ELSE /\ Step("executeQuery", "processResults")
            /\ rsp' = Normal(rsp, "QueryType")
            /\ query' = [calls |-> query.calls + 1, arg |-> in,
                         results |-> results, err |-> "nil"]
    /\ fn' = setGraphQueryLog(fn)
    /\ UNCHANGED in

\* processResults and, when it succeeds, the success condition of RunFunction
ProcessResults ==
    /\ pc = "processResults"
    /\ LET p == processResults(req, in, query.results, rsp) IN
       IF p.err # "nil"
       THEN /\ Step("processResults", "Failed")
            /\ rsp' = p.rsp
       ELSE /\ Step("processResults", "Done")
            /\ rsp' = ConditionTrue(p.rsp, "FunctionSuccess", "Success")
    /\ UNCHANGED <<in, query, fn>>

Next ==
    \/ InitializeResponse
    \/ ParseInputAndCredentials
    \/ IsValidTarget
    \/ ShouldSkipQuery
    \/ ProcessReferences
    \/ \E results \in QueryResults : ExecuteQuery(FALSE, results)
    \/ ExecuteQuery(TRUE, Null)
    \/ ProcessResults

Spec == Init /\ [][Next]_vars

----------------------------------------------------------------------------
(* Vocabulary of the properties                                            *)

Terminal == pc \in {"Done", "Failed"}

\* the step has completed in this invocation
Did(step) == \E i \in 1..Len(trace) : trace[i] = step

\* every completion of step b comes after a completion of step a
Precedes(a, b) ==
    \A i \in 1..Len(trace) : trace[i] = b => \E j \in 1..(i - 1) : trace[j] = a

\* the invocation got its input and its credentials
Parsed == req.inputValid /\ req.credentials

SkipFlagTrue == req.input.skipQueryWhenTargetHasData = Bool(TRUE)

\* the document the target addresses and the path inside it
TargetDoc ==
    IF HasPrefix(req.input.target, StatusPrefix)
    THEN getXRAndStatus(req).xrStatus
    ELSE AsMap(req.context)

TargetField ==
    IF HasPrefix(req.input.target, StatusPrefix)
    THEN TrimPrefix(req.input.target, StatusPrefix)
    ELSE TrimPrefix(req.input.target, ContextPrefix)

TargetHoldsData ==
    /\ isValidTarget(req.input.target)
    /\ targetHasData(TargetDoc, TargetField).hasData

\* the reference field that belongs to the query type is present and
\* does not resolve
MatchingRefUnresolved ==
    \/ /\ req.input.queryType = "GroupMembership"
       /\ ~RefAbsent(req.input.groupRef)
       /\ resolveGroupRef(req, req.input.groupRef).err # "nil"
    \/ /\ req.input.queryType = "UserValidation"
       /\ ~RefAbsent(req.input.usersRef)
       /\ resolveStringArrayRef(req, req.input.usersRef).err # "nil"

MatchingRefPresent ==
    \/ req.input.queryType = "GroupMembership" /\ ~RefAbsent(req.input.groupRef)
    \/ req.input.queryType = "UserValidation" /\ ~RefAbsent(req.input.usersRef)

\* every reference field present on the input resolves
AllRefsResolve ==
    /\ RefAbsent(req.input.groupRef) \/ resolveGroupRef(req, req.input.groupRef).err = "nil"
    /\ RefAbsent(req.input.usersRef)
           \/ resolveStringArrayRef(req, req.input.usersRef).err = "nil"

\* some proper prefix of parts leads, in m, to a value that is not a map
ConflictOnPath(m, parts) ==
    \E i \in 1..(Len(parts) - 1) :
        LET w == TraverseParts(Map(m), SubSeq(parts, 1, i)) IN
        w.found /\ ~IsMap(w.value)

\* desired root and context as initializeResponse leaves them
DesiredAtInit == propagateDesiredXR(req, ResponseTo(req)).desired

Published == Did("processResults") /\ pc = "Done"

----------------------------------------------------------------------------
(* C1 *)

\* C1 as claimed: reference resolution completes before the skip decision, so
\* the skip decision is never taken with a present reference unresolved and an
\* invocation whose reference does not resolve ends in Failed even when the
\* skip flag is true and the target holds data.
C1_ResolveBeforeSkip ==
    /\ (Terminal /\ Did("shouldSkipQuery") /\ MatchingRefPresent)
           => Precedes("processReferences", "shouldSkipQuery")
    /\ (Terminal /\ Parsed /\ isValidTarget(req.input.target) /\ MatchingRefUnresolved)
           => pc = "Failed"

\* C1 amended: the skip decision is taken before reference resolution, and
\* resolution completes before the query.  An invocation whose reference does
\* not resolve ends Done (skipped), without resolving anything, when the skip
\* flag is true and the target holds data, and ends in Failed without a query
\* otherwise.
C1_SkipBeforeResolve ==
    /\ Precedes("shouldSkipQuery", "processReferences")
    /\ Precedes("processReferences", "executeQuery")
    /\ (Terminal /\ Parsed /\ isValidTarget(req.input.target) /\ MatchingRefUnresolved)
           => IF SkipFlagTrue /\ TargetHoldsData
              THEN pc = "Done" /\ ~Did("processReferences") /\ query.calls = 0
              ELSE pc = "Failed" /\ Did("processReferences") /\ query.calls = 0

C1_Witness ==
    /\ pc = "Done"
    /\ Did("shouldSkipQuery")
    /\ SkipFlagTrue /\ TargetHoldsData
    /\ MatchingRefUnresolved

----------------------------------------------------------------------------
(* C2 *)

\* C2: in an invocation that got its input and credentials, when the skip flag
\* is true and the target path (under status or context) holds data according
\* to targetHasData, graphQuery is never called, nothing is published, and the
\* invocation ends Done with the FunctionSkip condition and the desired root
\* and context of initialization.
C2_SkipWhenTargetHasData ==
    (Parsed /\ SkipFlagTrue /\ TargetHoldsData) =>
        /\ query.calls = 0
        /\ ~Did("processReferences") /\ ~Did("executeQuery") /\ ~Did("processResults")
        /\ pc # "Failed"
        /\ Terminal =>
              /\ pc = "Done"
              /\ HasCondition(rsp, "FunctionSkip")
              /\ ~HasFatal(rsp)
              /\ rsp.desired = DesiredAtInit
              /\ rsp.context = req.context

C2_Witness ==
    /\ pc = "Done"
    /\ Parsed /\ SkipFlagTrue /\ TargetHoldsData
    /\ Did("shouldSkipQuery")
    /\ HasCondition(rsp, "FunctionSkip")

----------------------------------------------------------------------------
(* C3 *)

\* C3: when the skip flag is false or absent, an invocation with credentials,
\* a valid target prefix and resolvable references calls graphQuery exactly
\* once, whether or not the target holds data.
C3_NoSkipFlagQueryRuns ==
    (Terminal /\ Parsed /\ ~SkipFlagTrue /\ isValidTarget(req.input.target)
        /\ AllRefsResolve)
        => query.calls = 1

C3_Witness ==
    /\ Terminal /\ Parsed /\ AllRefsResolve
    /\ req.input.skipQueryWhenTargetHasData = Bool(FALSE)
    /\ TargetHoldsData
    /\ query.calls = 1

----------------------------------------------------------------------------
(* C4 *)

\* C4: results are published only after graphQuery has returned without error
\* in the same invocation; when graphQuery returns an error the invocation ends
\* in Failed with a fatal result, processResults is never called and no
\* FunctionSuccess condition is set.
C4_PublishOnlyAfterQuery ==
    /\ Did("processResults") =>
          /\ query.calls = 1 /\ query.err = "nil"
          /\ Precedes("executeQuery", "processResults")
    /\ query.err # "nil" =>
          /\ pc = "Failed"
          /\ HasFatal(rsp)
          /\ ~Did("processResults")
          /\ ~HasCondition(rsp, "FunctionSuccess")
          /\ rsp.desired = DesiredAtInit
          /\ rsp.context = req.context

C4_Witness ==
    /\ pc = "Failed"
    /\ query.calls = 1 /\ query.err # "nil"

----------------------------------------------------------------------------
(* C5 *)

\* the value stored at the target path of the response
PublishedAt ==
    IF HasPrefix(req.input.target, StatusPrefix)
    THEN TraverseParts(Map(GetValueInto(rsp.desired, "status").out),
                       ParseNestedKey(TargetField).parts)
    ELSE TraverseParts(Map(AsMap(rsp.context)), ParseNestedKey(TargetField).parts)

\* the result as the target root stores it
ResultAsStored ==
    IF HasPrefix(req.input.target, StatusPrefix)
    THEN toValidJSON(query.results)
    ELSE structpbAsInterface(query.results)

\* C5: there is no partial publish.  When processResults fails (invalid target
\* path, type conflict on an intermediate key, result not convertible), the
\* desired root and the context of the response are those of initialization;
\* when it succeeds the value at the target path is the result.
C5_NoPartialPublish ==
    /\ (pc = "Failed" /\ Did("processResults")) =>
          /\ rsp.desired = DesiredAtInit
          /\ rsp.context = req.context
    /\ Published =>
          /\ PublishedAt.found
          /\ PublishedAt.value = ResultAsStored

C5_Witness ==
    /\ pc = "Failed" /\ Did("processResults")
    /\ SetNestedKey(TargetDoc, TargetField, query.results).err = "not a map"

----------------------------------------------------------------------------
(* C7 *)

\* C7 as claimed: publishing to status.<path> replaces only the status key of
\* the desired root: the other fields of the status document in use are kept,
\* and every other top-level field of the desired root received by the
\* invocation (such as spec) is the same after the publish.
C7_PublishKeepsDesiredRoot ==
    (Published /\ HasPrefix(req.input.target, StatusPrefix)) =>
        /\ \A k \in DOMAIN TargetDoc :
              k # Head(ParseNestedKey(TargetField).parts)
                  => /\ k \in DOMAIN GetValueInto(rsp.desired, "status").out
                     /\ GetValueInto(rsp.desired, "status").out[k] = TargetDoc[k]
        /\ \A f \in DOMAIN req.desired :
              f # "status" => f \in DOMAIN rsp.desired /\ rsp.desired[f] = req.desired[f]

----------------------------------------------------------------------------
(* C8 *)

BracketTarget == ContextPrefix \o <<"[", "a", ".", "/", "b", "]", ".", "c">>

\* C8: publishing to context.[a./b].c yields a context whose only new
\* top-level key is the literal "a./b", dots and slashes included, holding the
\* result under c; every context key of the request that is not on the target
\* path is present and unchanged, at the top level and under the literal.
C8_BracketLiteralContextKey ==
    (Published /\ req.input.target = BracketTarget) =>
        LET old == AsMap(req.context)
            new == AsMap(rsp.context)
        IN  /\ rsp.context.t = "map"
            /\ DOMAIN new = (DOMAIN old) \cup {"a./b"}
            /\ \A k \in DOMAIN old : k # "a./b" => new[k] = old[k]
            /\ IsMap(new["a./b"])
            /\ "c" \in DOMAIN new["a./b"].v
            /\ new["a./b"].v["c"] = structpbAsInterface(query.results)
            /\ ("a./b" \in DOMAIN old /\ IsMap(old["a./b"])) =>
                  /\ DOMAIN new["a./b"].v = (DOMAIN old["a./b"].v) \cup {"c"}
                  /\ \A k \in DOMAIN old["a./b"].v :
                        k # "c" => new["a./b"].v[k] = old["a./b"].v[k]

C8_Witness ==
    /\ Published /\ req.input.target = BracketTarget
    /\ "o" \in DOMAIN AsMap(req.context)
    /\ "a./b" \in DOMAIN AsMap(rsp.context)

----------------------------------------------------------------------------
(* C13 *)

\* the status document of a composite of the request, empty when it has none
StatusOf(xr) ==
    IF "status" \in DOMAIN xr /\ IsMap(xr["status"]) THEN xr["status"].v ELSE EmptyMap

\* the desired status when it is not empty, the observed status otherwise
DesiredElseObservedStatus ==
    IF StatusOf(req.desired) # EmptyMap THEN StatusOf(req.desired) ELSE StatusOf(req.observed)

\* the groupRef of the request is resolved by this invocation: the query type
\* is GroupMembership, the reference is present and processReferences ran
GroupRefProcessed ==
    /\ Did("processReferences")
    /\ req.input.queryType = "GroupMembership"
    /\ ~RefAbsent(req.input.groupRef)

\* what the path after the prefix leads to in doc
LeafOf(doc, ref, prefix) ==
    LET p == ParseNestedKey(TrimPrefix(ref, prefix)) IN
    IF p.err # "nil" THEN [found |-> FALSE, value |-> Null, why |-> "invalid key"]
    ELSE TraverseParts(Map(doc), p.parts)

\* C13: a status.* groupRef is looked up in the status document of the
\* desired composite of the request when that document is not empty and in
\* the status document of the observed composite otherwise: the group handed
\* on is the string found there, and the invocation fails without a query
\* when no string is found there.
C13_StatusRefDesiredElseObserved ==
    (GroupRefProcessed /\ HasPrefix(req.input.groupRef.v, StatusPrefix)) =>
        LET leaf == LeafOf(DesiredElseObservedStatus, req.input.groupRef.v, StatusPrefix)
        IN  IF leaf.found /\ leaf.value.t = "str"
            THEN in.group = Str(leaf.value.v)
            ELSE pc = "Failed" /\ query.calls = 0

\* the fallback: no desired status, the observed status holds the string
C13_Witness ==
    /\ GroupRefProcessed
    /\ req.input.groupRef = Str(StatusPrefix \o <<"a">>)
    /\ StatusOf(req.desired) = EmptyMap
    /\ StatusOf(req.observed) = ("a" :> Str("dev")) @@ ("z" :> Num(0))
    /\ in.group = Str("dev")
    /\ query.calls = 1

----------------------------------------------------------------------------
(* C14 *)

SpecOf(xr) ==
    IF "spec" \in DOMAIN xr /\ IsMap(xr["spec"]) THEN xr["spec"].v ELSE EmptyMap

\* the spec document a spec.* reference is read from: the observed spec when
\* it is not empty, the spec of the desired composite of the request otherwise
SpecInUse ==
    IF SpecOf(req.observed) # EmptyMap THEN SpecOf(req.observed) ELSE SpecOf(req.desired)

HasSupportedRoot(ref) ==
    HasPrefix(ref, StatusPrefix) \/ HasPrefix(ref, ContextPrefix) \/ HasPrefix(ref, SpecPrefix)

\* the leaf a reference with a supported root leads to
RefLeaf(ref) ==
    IF HasPrefix(ref, StatusPrefix) THEN LeafOf(DesiredElseObservedStatus, ref, StatusPrefix)
    ELSE IF HasPrefix(ref, ContextPrefix) THEN LeafOf(AsMap(req.context), ref, ContextPrefix)
    ELSE LeafOf(SpecInUse, ref, SpecPrefix)

LastFatal ==
    IF Len(rsp.results) > 0 /\ rsp.results[Len(rsp.results)].severity = "FATAL"
    THEN rsp.results[Len(rsp.results)].message
    ELSE ""

\* C14: resolveGroupRef on a reference with a supported root succeeds only
\* when the leaf exists and is a string, and the group handed on is that
\* string; when the path is absent or the leaf is of another type (number,
\* array, map) the invocation is Failed with the not-found error of the
\* reference (cannot get XR spec when there is no spec document at all) and
\* graphQuery was not called.
C14_ScalarRefNeedsString ==
    (GroupRefProcessed /\ HasSupportedRoot(req.input.groupRef.v)) =>
        LET leaf == RefLeaf(req.input.groupRef.v) IN
        IF leaf.found /\ leaf.value.t = "str"
        THEN /\ in.group = Str(leaf.value.v)
             /\ LastFatal \notin { "cannot resolve groupRef: not found", "cannot get XR spec" }
        ELSE /\ pc = "Failed"
             /\ query.calls = 0
             /\ LastFatal \in { "cannot resolve groupRef: not found", "cannot get XR spec" }
             /\ in.group = req.input.group

\* the leaf exists and is a map
C14_Witness ==
    /\ GroupRefProcessed
    /\ req.input.groupRef = Str(StatusPrefix \o <<"a">>)
    /\ RefLeaf(req.input.groupRef.v).found
    /\ RefLeaf(req.input.groupRef.v).value.t = "map"
    /\ pc = "Failed"
    /\ query.calls = 0

----------------------------------------------------------------------------
(* C16 *)

\* the usersRef of the request is resolved by this invocation
UsersRefProcessed ==
    /\ Did("processReferences")
    /\ req.input.queryType = "UserValidation"
    /\ ~RefAbsent(req.input.usersRef)

UnsupportedRootErrors == { "unsupported groupRef format", "unsupported ref format" }

\* C16: a reference that does not start with exactly spec., status. or
\* context. (Status. is not status.) is refused with the unsupported-format
\* error, by resolveGroupRef and by resolveStringArrayRef alike: the
\* invocation is Failed and graphQuery was not called.  A reference that
\* starts with one of the three is never refused with that error.
C16_UnsupportedRoot ==
    /\ GroupRefProcessed =>
          IF HasSupportedRoot(req.input.groupRef.v)
          THEN LastFatal \notin UnsupportedRootErrors
          ELSE /\ pc = "Failed"
               /\ query.calls = 0
               /\ LastFatal = "unsupported groupRef format"
               /\ in.group = req.input.group
    /\ UsersRefProcessed =>
          IF HasSupportedRoot(req.input.usersRef.v)
          THEN LastFatal \notin UnsupportedRootErrors
          ELSE /\ pc = "Failed"
               /\ query.calls = 0
               /\ LastFatal = "unsupported ref format"
               /\ in.users = req.input.users

\* Status.a is refused although status.a would resolve
C16_Witness ==
    /\ GroupRefProcessed
    /\ req.input.groupRef = Str(<<"S", "t", "a", "t", "u", "s", ".", "a">>)
    /\ LeafOf(DesiredElseObservedStatus, StatusPrefix \o <<"a">>, StatusPrefix).value = Str("dev")
    /\ pc = "Failed"
    /\ LastFatal = "unsupported groupRef format"
    /\ query.calls = 0

----------------------------------------------------------------------------
(* C17 *)

\* the target of the request starts neither with status. nor with context.
TargetRootUnrecognized ==
    /\ req.inputValid
    /\ ~HasPrefix(req.input.target, StatusPrefix)
    /\ ~HasPrefix(req.input.target, ContextPrefix)

\* the response carries what initializeResponse put there and nothing else
NothingPublished ==
    /\ ~Did("processResults")
    /\ Did("initializeResponse") =>
          /\ rsp.desired = DesiredAtInit
          /\ rsp.context = req.context

\* C17: an invocation whose target starts neither with status. nor with
\* context. (spec.a and the empty target included) never calls graphQuery and
\* never publishes, and it ends in Failed; when its credentials were obtained
\* the error it ends with is the unrecognized-target error.
C17_UnrecognizedTargetFails ==
    TargetRootUnrecognized =>
        /\ query.calls = 0
        /\ NothingPublished
        /\ pc # "Done"
        /\ ~HasCondition(rsp, "FunctionSuccess")
        /\ (Terminal /\ req.credentials) =>
              /\ pc = "Failed"
              /\ LastFatal = "Unrecognized target field"
              /\ trace = <<"initializeResponse", "parseInputAndCredentials", "isValidTarget">>

C17_Witness ==
    /\ TargetRootUnrecognized
    /\ req.input.target = SpecPrefix \o <<"a">>
    /\ req.credentials
    /\ pc = "Failed"
    /\ LastFatal = "Unrecognized target field"
    /\ query.calls = 0

----------------------------------------------------------------------------
(* C18 *)

\* C18 as claimed: once processReferences has run, every reference field
\* present on the input has been resolved, whatever the query type: its value
\* stands in the working input, or the invocation is Failed because it (or
\* another reference) did not resolve.
C18_EveryPresentRefResolved ==
    Did("processReferences") =>
        /\ ~RefAbsent(req.input.groupRef) =>
              IF resolveGroupRef(req, req.input.groupRef).err = "nil"
              THEN pc = "Failed"
                   \/ in.group = Str(resolveGroupRef(req, req.input.groupRef).value)
              ELSE pc = "Failed"
        /\ ~RefAbsent(req.input.usersRef) =>
              IF resolveStringArrayRef(req, req.input.usersRef).err = "nil"
              THEN pc = "Failed"
                   \/ in.users = Arr(resolveStringArrayRef(req, req.input.usersRef).result)
              ELSE pc = "Failed"

\* the reference field of the query type of the request does not resolve
OwnRefFails ==
    \/ /\ req.input.queryType = "GroupMembership"
       /\ ~RefAbsent(req.input.groupRef)
       /\ resolveGroupRef(req, req.input.groupRef).err # "nil"
    \/ /\ req.input.queryType = "UserValidation"
       /\ ~RefAbsent(req.input.usersRef)
       /\ resolveStringArrayRef(req, req.input.usersRef).err # "nil"
    \/ /\ req.input.queryType = "GroupObjectIDs"
       /\ ~RefAbsent(req.input.groupsRef)
       /\ resolveStringArrayRef(req, req.input.groupsRef).err # "nil"

\* C18, amended: processReferences resolves only the reference field of the
\* query type of the input (groupRef for GroupMembership, usersRef for
\* UserValidation, groupsRef for GroupObjectIDs).  When that reference does
\* not resolve the invocation is Failed without a query; otherwise the
\* invocation goes on to the query, and the fields that belong to the other
\* query types are left as the input gave them, also when their references
\* are present and whether or not those would resolve.
C18_OnlyOwnRefResolved ==
    Did("processReferences") =>
        /\ IF OwnRefFails
           THEN pc = "Failed" /\ query.calls = 0 /\ in = req.input
           ELSE query.calls = 1 \/ pc = "executeQuery"
        /\ req.input.queryType # "GroupMembership" => in.group = req.input.group
        /\ req.input.queryType # "UserValidation" => in.users = req.input.users
        /\ req.input.queryType # "GroupObjectIDs" => in.groups = req.input.groups

\* a groupRef that cannot resolve rides along a UserValidation query
C18_Witness ==
    /\ Did("processReferences")
    /\ req.input.queryType = "UserValidation"
    /\ req.input.groupRef = Str(<<"x", ".", "a">>)
    /\ resolveGroupRef(req, req.input.groupRef).err # "nil"
    /\ in.group = Str("lit")
    /\ query.calls = 1

----------------------------------------------------------------------------
(* C19 *)

\* C19: when graphQuery is called, the field its query type reads (group for
\* GroupMembership, users for UserValidation) is, when the reference of that
\* field is present, the value the reference leads to (the string at the
\* leaf, the strings of the array at the leaf) and not the literal the input
\* carried in the field; without the reference it is the literal.
C19_RefOverridesLiteral ==
    query.calls > 0 =>
        /\ req.input.queryType = "GroupMembership" =>
              IF RefAbsent(req.input.groupRef)
              THEN query.arg.group = req.input.group
              ELSE LET leaf == RefLeaf(req.input.groupRef.v) IN
                   /\ HasSupportedRoot(req.input.groupRef.v)
                   /\ leaf.found /\ leaf.value.t = "str"
                   /\ query.arg.group = Str(leaf.value.v)
        /\ req.input.queryType = "UserValidation" =>
              IF RefAbsent(req.input.usersRef)
              THEN query.arg.users = req.input.users
              ELSE LET leaf == RefLeaf(req.input.usersRef.v) IN
                   /\ HasSupportedRoot(req.input.usersRef.v)
                   /\ leaf.found /\ leaf.value.t = "arr"
                   /\ query.arg.users = Arr(SelectSeq(leaf.value.v, IsString))
                   /\ Len(query.arg.users.v) > 0

C19_Witness ==
    /\ query.calls = 1
    /\ req.input.queryType = "UserValidation"
    /\ req.input.usersRef = Str(ContextPrefix \o <<"[", "a", ".", "/", "b", "]", ".", "c">>)
    /\ req.input.users = Arr(<<Str("lit")>>)
    /\ query.arg.users = Arr(<<Str("u")>>)

----------------------------------------------------------------------------
(* C20 *)

\* C20 as claimed: a spec.* groupRef is read in the spec document left by the
\* copy of the observed spec into the desired composite, and what the earlier
\* steps of the pipeline wrote in the spec of the desired composite is
\* visible to it: a string they left under the referenced path is the group
\* handed on, and a path they left nothing under is read in the observed spec.
C20_SpecEditsVisible ==
    (GroupRefProcessed /\ HasPrefix(req.input.groupRef.v, SpecPrefix)) =>
        LET edited   == LeafOf(SpecOf(req.desired), req.input.groupRef.v, SpecPrefix)
            observed == LeafOf(SpecOf(req.observed), req.input.groupRef.v, SpecPrefix)
        IN  IF edited.found /\ edited.value.t = "str"
            THEN in.group = Str(edited.value.v)
            ELSE IF observed.found /\ observed.value.t = "str"
            THEN in.group = Str(observed.value.v)
            ELSE pc = "Failed"

----------------------------------------------------------------------------
(* C21 *)

\* C21: Done and Failed are absorbing.  Every step of an invocation starts at
\* a position that is neither Done nor Failed and that the invocation has not
\* been at before, so no resolve, query or publish step follows the end of
\* the invocation and none is taken twice; graphQuery is called at most once.
C21_TerminalAbsorbing ==
    [][ /\ pc \notin {"Done", "Failed"}
        /\ ~Did(pc)
        /\ trace' = Append(trace, pc)
        /\ query.calls' \in {query.calls, query.calls + 1}
        /\ query.calls' <= 1 ]_runVars

\* the query failed and the invocation ended without a second call
C21_Witness ==
    /\ pc = "Failed"
    /\ query.calls = 1
    /\ query.err = "query failed"
    /\ trace[Len(trace)] = "executeQuery"

----------------------------------------------------------------------------
(* C22 *)

\* the outcomes the response reports
ReportsSuccess == HasCondition(rsp, "FunctionSuccess")
ReportsSkipped == HasCondition(rsp, "FunctionSkip")
ReportsFatal   == HasFatal(rsp)

\* C22 as claimed: the response of a finished invocation reports exactly one
\* of success, skipped and fatal error, never two of them together.
C22_ExactlyOneOutcome ==
    Terminal =>
        /\ ReportsSuccess \/ ReportsSkipped \/ ReportsFatal
        /\ ~(ReportsSuccess /\ ReportsSkipped)
        /\ ~(ReportsSuccess /\ ReportsFatal)
        /\ ~(ReportsSkipped /\ ReportsFatal)

\* C22, amended: the response of a finished invocation reports either a
\* fatal error or success, never both and never neither.  Skipped is not an
\* outcome of its own: a skipped invocation reports the FunctionSkip
\* condition together with FunctionSuccess, and never with a fatal error.
C22_SkipIsAlsoSuccess ==
    /\ Terminal => (ReportsFatal <=> ~ReportsSuccess)
    /\ Terminal => (pc = "Failed" <=> ReportsFatal)
    /\ ReportsSkipped => ~ReportsFatal
    /\ (Terminal /\ ReportsSkipped) => ReportsSuccess
    /\ (Terminal /\ ReportsSkipped) => query.calls = 0

C22_Witness ==
    /\ pc = "Done"
    /\ ReportsSkipped
    /\ ReportsSuccess
    /\ ~ReportsFatal
    /\ trace[Len(trace)] = "shouldSkipQuery"

----------------------------------------------------------------------------
(* C23 *)

\* the result of the query cannot be written at the target
PublishFails ==
    /\ Did("executeQuery") /\ query.err = "nil"
    /\ \/ ParseNestedKey(TargetField).err # "nil"
       \/ ConflictOnPath(TargetDoc, ParseNestedKey(TargetField).parts)
       \/ /\ HasPrefix(req.input.target, ContextPrefix)
          /\ ~structpbAccepts(query.results)

\* an error met by the invocation so far
ErrorMet ==
    \/ ~req.inputValid /\ Did("parseInputAndCredentials")
    \/ ~req.credentials /\ Did("parseInputAndCredentials")
    \/ TargetRootUnrecognized /\ Did("isValidTarget")
    \/ OwnRefFails /\ Did("processReferences")
    \/ query.err # "nil"
    \/ PublishFails /\ Did("processResults")

\* C23: as soon as an invocation has met an error (no input, no credentials,
\* unrecognized target, reference that does not resolve, failed query,
\* failed publish) it has returned, its response ends with a fatal result
\* and it carries no success condition; an invocation that met none carries
\* no fatal result.  Whatever happened, the error RunFunction returns is nil.
C23_ErrorsAreFatalResults ==
    /\ ErrorMet => (pc = "Failed" /\ LastFatal # "" /\ ~ReportsSuccess)
    /\ ~ErrorMet => ~ReportsFatal
    /\ ret = (IF Terminal THEN "nil" ELSE "running")

C23_Witness ==
    /\ PublishFails
    /\ pc = "Failed"
    /\ LastFatal = "cannot set status field: not a map"
    /\ ret = "nil"

----------------------------------------------------------------------------
(* C24 *)

PublishedToContext == Published /\ HasPrefix(req.input.target, ContextPrefix)

\* C24: from initializeResponse on, and unless the invocation has published
\* to a context target, the context of the response is the context of the
\* request: after a skip, after a failure at any step (a failed publish to
\* the context included) and after a publish to status.
C24_ContextPreserved ==
    (Did("initializeResponse") /\ ~PublishedToContext) => rsp.context = req.context

\* the publish to the context failed on a value that is not a map
C24_Witness ==
    /\ pc = "Failed"
    /\ Did("processResults")
    /\ HasPrefix(req.input.target, ContextPrefix)
    /\ req.context = Map("a./b" :> Str("x"))
    /\ rsp.context = req.context

----------------------------------------------------------------------------
(* C29 *)

\* the skip check looked at the status document of this invocation
StatusSkipCheckRan ==
    /\ Did("shouldSkipQuery")
    /\ SkipFlagTrue
    /\ HasPrefix(req.input.target, StatusPrefix)

----------------------------------------------------------------------------
(* C27 *)

\* the target is status. or context. with nothing after the prefix
EmptyPathTarget ==
    /\ Parsed
    /\ req.input.target \in {StatusPrefix, ContextPrefix}

InvalidPathErrors ==
    { "cannot set status field: invalid key", "failed to update context key: invalid key" }

----------------------------------------------------------------------------
(* Accessor harness: SetNestedKey and targetHasData applied to a document  *)
(* that starts empty and is built up by the calls themselves.              *)

MaxOps == 2

AccKeys ==
    { <<"a">>, <<"a", ".", "b">>, <<"a", ".", "b", ".", "c">>,
      <<"[", "a", ".", "b", "]">>, <<"a", ".", "[", "a", ".", "b", "]">>,
      <<>>, <<".">> }

AccValues ==
    { Null, Bool(FALSE), Num(0), Str(""), Str("x"), Arr(<<>>), Arr(<<Num(1)>>),
      Arr(<<Str("u"), Num(1), Str("v")>>),
      Map(EmptyMap), Map("k" :> Num(1)) }

InitAcc == RunIdle /\ ConcIdle /\ AccIdle /\ ParseIdle

AccSet(key, value) ==
    /\ accOps < MaxOps
    /\ LET r == SetNestedKey(accDoc, key, value) IN
       /\ accDoc' = r.root
       /\ accLast' = [op |-> "set", key |-> key, value |-> value,
                      before |-> accDoc, err |-> r.err, hasData |-> FALSE,
                      result |-> <<>>]
    /\ accOps' = accOps + 1
    /\ UNCHANGED <<runVars, concVars, parseVars>>

AccHasData(key) ==
    /\ LET r == targetHasData(accDoc, key) IN
       accLast' = [op |-> "has", key |-> key, value |-> Null,
                   before |-> accDoc, err |-> r.err, hasData |-> r.hasData,
                   result |-> <<>>]
    /\ UNCHANGED <<accDoc, accOps>>
    /\ UNCHANGED <<runVars, concVars, parseVars>>

AccExtract(key) ==
    /\ LET r == extractStringArrayFromMap(accDoc, key) IN
       accLast' = [op |-> "extract", key |-> key, value |-> Null,
                   before |-> accDoc, err |-> r.err, hasData |-> FALSE,
                   result |-> r.result]
    /\ UNCHANGED <<accDoc, accOps>>
    /\ UNCHANGED <<runVars, concVars, parseVars>>

NextAcc ==
    \/ \E key \in AccKeys, value \in AccValues : AccSet(key, value)
    \/ \E key \in AccKeys : AccHasData(key)
    \/ \E key \in AccKeys : AccExtract(key)

SpecAcc == InitAcc /\ [][NextAcc]_vars

----------------------------------------------------------------------------
(* C6 *)

\* the parts of the key of the last call
LastParts == ParseNestedKey(accLast.key).parts

\* after differs from before only along parts: at every level the keys that
\* are not the part of that level are the same with the same values, and no
\* other key appeared
RECURSIVE OnlyPathChanged(_, _, _)
OnlyPathChanged(before, after, parts) ==
    /\ DOMAIN after = (DOMAIN before) \cup {Head(parts)}
    /\ \A k \in DOMAIN before : k # Head(parts) => after[k] = before[k]
    /\ Len(parts) > 1 =>
          /\ IsMap(after[Head(parts)])
          /\ OnlyPathChanged(
                 IF Head(parts) \in DOMAIN before /\ IsMap(before[Head(parts)])
                 THEN before[Head(parts)].v ELSE EmptyMap,
                 after[Head(parts)].v, Tail(parts))

\* C6: for every key that parses, every value and every document, after a
\* SetNestedKey that returns no error the traversal of the same key finds
\* exactly the value set, whatever was stored there before (missing
\* intermediate maps are created), and every key of the document that is not
\* on the path keeps its value at every level.
C6_SetThenGet ==
    (accLast.op = "set" /\ accLast.err = "nil") =>
        /\ ParseNestedKey(accLast.key).err = "nil"
        /\ TraverseParts(Map(accDoc), LastParts).found
        /\ TraverseParts(Map(accDoc), LastParts).value = accLast.value
        /\ OnlyPathChanged(accLast.before, accDoc, LastParts)

\* an intermediate map is created next to a sibling that is kept
C6_Witness ==
    /\ accLast.op = "set" /\ accLast.err = "nil"
    /\ accLast.key = <<"a", ".", "b">>
    /\ "a" \in DOMAIN accLast.before
    /\ "k" \in DOMAIN accLast.before["a"].v
    /\ "b" \notin DOMAIN accLast.before["a"].v
    /\ accDoc["a"].v["k"] = Num(1)

----------------------------------------------------------------------------
(* C9 *)

\* C9: SetNestedKey returns the not-a-map error whenever a non-final segment
\* of the key names a key that exists with a value that is not a map (scalar,
\* array or null), and that value is neither replaced nor turned into a map:
\* the document is what it was.
C9_TypeConflict ==
    (accLast.op = "set" /\ ParseNestedKey(accLast.key).err = "nil"
        /\ ConflictOnPath(accLast.before, LastParts))
        => /\ accLast.err = "not a map"
           /\ accDoc = accLast.before

C9_Witness ==
    /\ accLast.op = "set"
    /\ accLast.key = <<"a", ".", "b">>
    /\ "a" \in DOMAIN accLast.before
    /\ accLast.before["a"] = Arr(<<Num(1)>>)
    /\ accLast.err = "not a map"

----------------------------------------------------------------------------
(* C10 *)

\* the values that count as no data
EmptyValues == { Null, Map(EmptyMap), Arr(<<>>), Str("") }

\* C10: targetHasData is false when the path is missing (an absent key, or an
\* intermediate value that is not a map) or the value found is null, an empty
\* map, an empty array or the empty string; it is true for every other value
\* found, the number 0 and the boolean false included.
C10_HasData ==
    accLast.op = "has" =>
        LET w == TraverseParts(Map(accDoc), LastParts) IN
        accLast.hasData = /\ ParseNestedKey(accLast.key).err = "nil"
                          /\ w.found
                          /\ w.value \notin EmptyValues

C10_Witness ==
    /\ accLast.op = "has" /\ accLast.hasData
    /\ accLast.key = <<"a", ".", "b">>
    /\ accDoc["a"].v["b"] \in { Num(0), Bool(FALSE) }

----------------------------------------------------------------------------
(* C15 *)

\* C15: extractStringArrayFromMap returns the string elements of the array
\* the path leads to, in order and without the elements of other types, when
\* there is at least one; it returns an error and no list when the path is
\* absent or malformed, when the leaf is not an array and when the array
\* holds no string.  A list returned without error is never empty.
C15_ArrayRefDropsNonStrings ==
    accLast.op = "extract" =>
        LET w == TraverseParts(Map(accDoc), LastParts) IN
        /\ IF /\ ParseNestedKey(accLast.key).err = "nil"
              /\ w.found
              /\ w.value.t = "arr"
              /\ \E i \in 1..Len(w.value.v) : IsString(w.value.v[i])
           THEN /\ accLast.err = "nil"
                /\ accLast.result = SelectSeq(w.value.v, IsString)
           ELSE /\ accLast.err # "nil"
                /\ accLast.result = <<>>
        /\ accLast.err = "nil" => Len(accLast.result) > 0

\* a number between two strings is dropped
C15_Witness ==
    /\ accLast.op = "extract"
    /\ accLast.key = <<"a", ".", "b">>
    /\ TraverseParts(Map(accDoc), <<"a", "b">>).value = Arr(<<Str("u"), Num(1), Str("v")>>)
    /\ accLast.result = <<Str("u"), Str("v")>>
    /\ accLast.err = "nil"

----------------------------------------------------------------------------
(* C28 *)

\* the first index of parts whose key is missing in m, Len(parts) + 1 if the
\* whole path exists or runs into a value that is not a map
RECURSIVE FirstMissing(_, _, _)
FirstMissing(m, parts, i) ==
    IF i > Len(parts) THEN i
    ELSE LET w == TraverseParts(Map(m), SubSeq(parts, 1, i)) IN
         IF ~w.found /\ w.why = "not found" THEN i
         ELSE IF ~w.found THEN Len(parts) + 1
         ELSE FirstMissing(m, parts, i + 1)

\* C28: a SetNestedKey that returns an error, the invalid-key error or the
\* not-a-map error, leaves the document exactly as it was before the call,
\* without any map created on the way.  The not-a-map error is only met on a
\* value that stood in the document before the call, above every key of the
\* path that was missing.
C28_FailedSetLeavesDocument ==
    (accLast.op = "set" /\ accLast.err # "nil") =>
        /\ accDoc = accLast.before
        /\ accLast.err \in {"invalid key", "not a map"}
        /\ accLast.err = "invalid key" <=> ParseNestedKey(accLast.key).err # "nil"
        /\ accLast.err = "not a map" =>
              /\ ConflictOnPath(accLast.before, LastParts)
              /\ FirstMissing(accLast.before, LastParts, 1) = Len(LastParts) + 1

\* the key does not parse and the document, which is not empty, is kept
C28_Witness ==
    /\ accLast.op = "set"
    /\ accLast.err = "invalid key"
    /\ accLast.key = <<".">>
    /\ accLast.before # EmptyMap
    /\ accDoc = accLast.before

----------------------------------------------------------------------------
(* Parser harness: ParseNestedKey applied to one key                       *)

MaxKeyLen == 4

KeyAlphabet == { "a", "b", ".", "[", "]" }

\* the keys named by the documentation and the tests of the parser
NamedKeys ==
    { <<"a", ".", "b", ".", "c">>,
      <<"a", ".", "[", "x", ".", "y", "]", ".", "b">>,
      <<"[", "a", ".", "/", "b", "]", ".", "c">> }

ParseKeys == UNION { [1..n -> KeyAlphabet] : n \in 0..MaxKeyLen } \cup NamedKeys

InitParse ==
    /\ RunIdle
    /\ ConcIdle
    /\ AccIdle
    /\ parseKey \in ParseKeys
    /\ parseRet = NotParsed

Parse ==
    /\ ~parseRet.called
    /\ LET r == ParseNestedKey(parseKey) IN
       parseRet' = [called |-> TRUE, parts |-> r.parts, err |-> r.err]
    /\ UNCHANGED <<parseKey, runVars, concVars, accVars>>

NextParse == Parse

SpecParse == InitParse /\ [][NextParse]_vars

----------------------------------------------------------------------------
(* C11 *)

\* the key is one bracket-delimited literal: [ and ] around a non-empty run
\* without brackets
OneBracketLiteral(key) ==
    /\ Len(key) >= 3
    /\ key[1] = "[" /\ key[Len(key)] = "]"
    /\ \A i \in 2..(Len(key) - 1) : key[i] \notin {"[", "]"}

\* C11: ParseNestedKey("a.b.c") is a, b, c; ParseNestedKey("a.[x.y].b") is a,
\* x.y, b; a key that is one bracket-delimited literal gives that literal
\* verbatim as its only segment; ParseNestedKey("") fails with the invalid-key
\* error; a parse that succeeds never returns zero segments and a parse that
\* fails returns none.
C11_ParseSegments ==
    parseRet.called =>
        /\ parseKey = <<"a", ".", "b", ".", "c">>
               => parseRet.err = "nil" /\ parseRet.parts = <<"a", "b", "c">>
        /\ parseKey = <<"a", ".", "[", "x", ".", "y", "]", ".", "b">>
               => parseRet.err = "nil" /\ parseRet.parts = <<"a", "x.y", "b">>
        /\ OneBracketLiteral(parseKey)
               => /\ parseRet.err = "nil"
                  /\ parseRet.parts = <<goString(SubSeq(parseKey, 2, Len(parseKey) - 1))>>
        /\ parseKey = <<>> => parseRet.err = "invalid key"
        /\ parseRet.err \in {"nil", "invalid key"}
        /\ parseRet.err = "nil" <=> Len(parseRet.parts) > 0

C11_Witness ==
    /\ parseRet.called
    /\ parseKey = <<"a", ".", "[", "x", ".", "y", "]", ".", "b">>
    /\ parseRet.parts = <<"a", "x.y", "b">>

----------------------------------------------------------------------------
(* C12 *)

HasConsecutiveDots(key) ==
    \E i \in 1..(Len(key) - 1) : key[i] = "." /\ key[i + 1] = "."

BracketFree(key) == \A i \in 1..Len(key) : key[i] \notin {"[", "]"}

\* the non-empty runs between the dots of a key, cur being the run under way
RECURSIVE dotRuns(_, _)
dotRuns(key, cur) ==
    IF key = <<>> THEN (IF cur = "" THEN <<>> ELSE <<cur>>)
    ELSE IF Head(key) = "."
    THEN (IF cur = "" THEN <<>> ELSE <<cur>>) \o dotRuns(Tail(key), "")
    ELSE dotRuns(Tail(key), cur \o Head(key))

\* C12 as claimed: a key that contains two dots in a row is refused with the
\* invalid-key error and no segments.
C12_ConsecutiveDotsRejected ==
    (parseRet.called /\ HasConsecutiveDots(parseKey)) =>
        parseRet.err = "invalid key" /\ parseRet.parts = <<>>

\* C12, amended: dots in a row are not an error.  The empty runs between
\* them are skipped: a key without brackets parses to its non-empty runs
\* between dots, in order, and it is refused with the invalid-key error only
\* when it has no such run at all.
C12_ConsecutiveDotsSkipped ==
    (parseRet.called /\ BracketFree(parseKey)) =>
        IF dotRuns(parseKey, "") = <<>>
        THEN parseRet.err = "invalid key" /\ parseRet.parts = <<>>
        ELSE parseRet.err = "nil" /\ parseRet.parts = dotRuns(parseKey, "")

C12_Witness ==
    /\ parseRet.called
    /\ parseKey = <<"a", ".", ".", "b">>
    /\ parseRet.err = "nil"
    /\ parseRet.parts = <<"a", "b">>

----------------------------------------------------------------------------
(* Re-invocation: the composition is rendered again after the desired      *)
(* state of an invocation has been applied, so that the next request       *)
(* observes the status that invocation returned.                           *)

MaxGen == 1

LoopStatusDocs ==
    { EmptyMap,
      "status" :> Map("z" :> Num(0)),
      "status" :> Map("a" :> Str("dev")),
      "status" :> Map("a" :> Str("")) }

LoopTargets == { StatusPrefix \o <<"a">>, StatusPrefix \o <<"a", ".", "b">> }

LoopInputs ==
    [ queryType : {"UserValidation"},
      target : LoopTargets,
      skipQueryWhenTargetHasData : {Null, Bool(TRUE)},
      group : {Null},
      groupRef : {Null},
      users : {Arr(<<Str("lit")>>)},
      usersRef : {Null},
      groups : {Null},
      groupsRef : {Null},
      servicePrincipals : {Null},
      servicePrincipalsRef : {Null} ]

LoopRequests ==
    [ observed : { XRKind @@ st : st \in LoopStatusDocs },
      desired : { EmptyMap } \cup { XRKind @@ st : st \in LoopStatusDocs },
      context : {Null},
      credentials : {TRUE}, inputValid : {TRUE}, input : LoopInputs ]

\* graphQuery returns an interface{}: any value can come back
LoopResults ==
    { Null, NilSlice, Arr(<<>>), Map(EmptyMap), Str(""),
      Num(0), Bool(FALSE), Str("x"), Arr(<<Map("id" :> StrPtr("u1"))>>) }

InitLoop ==
    /\ req \in LoopRequests
    /\ in = NoInput
    /\ rsp = NoResponse
    /\ pc = "initializeResponse"
    /\ trace = <<>>
    /\ query = NoQuery
    /\ ret = "running"
    /\ fn = NewFunction
    /\ prev = NoPrev
    /\ ConcIdle
    /\ AccIdle
    /\ ParseIdle

\* the desired composite the steps before this one hand to the next invocation
NextDesired ==
    { EmptyMap, rsp.desired, XRKind @@ ("status" :> Map("z" :> Num(0))) }

\* RunFunction is called again on the same Function after an invocation that
\* published to its status target: the observed status is the status that
\* invocation returned, the target is the same and the skip flag is true
Reinvoke ==
    /\ pc = "Done"
    /\ Did("processResults")
    /\ prev.gen < MaxGen
    /\ \E d \in NextDesired :
          req' = [req EXCEPT
                     !.observed = MapPut(@, "status", Map(StatusOf(rsp.desired))),
                     !.desired = d,
                     !.input.skipQueryWhenTargetHasData = Bool(TRUE)]
    /\ prev' = [gen |-> prev.gen + 1, V |-> query.results,
                status |-> StatusOf(rsp.desired)]
    /\ in' = NoInput
    /\ rsp' = NoResponse
    /\ pc' = "initializeResponse"
    /\ trace' = <<>>
    /\ query' = NoQuery
    /\ ret' = "running"
    /\ UNCHANGED <<fn, concVars, accVars, parseVars>>

NextLoop ==
    \/ InitializeResponse
    \/ ParseInputAndCredentials
    \/ IsValidTarget
    \/ ShouldSkipQuery
    \/ ProcessReferences
    \/ \E results \in LoopResults : ExecuteQuery(FALSE, results)
    \/ ExecuteQuery(TRUE, Null)
    \/ ProcessResults
    \/ Reinvoke

SpecLoop == InitLoop /\ [][NextLoop]_vars

----------------------------------------------------------------------------
(* C26 *)

\* hasData at the target path of a status document
StatusHasData(status) == targetHasData(status, TargetField).hasData

\* C26: with the skip flag true and a status target, the skip check looks at
\* one status document only.  A desired status that is not empty decides
\* alone: without data at the target the query runs, whatever the observed
\* status holds there.  An empty desired status leaves the decision to the
\* observed status.
C26_SkipCheckUsesChosenStatus ==
    (SkipFlagTrue /\ Did("shouldSkipQuery")) =>
        LET d == StatusOf(req.desired)
            o == StatusOf(req.observed)
        IN  /\ (d # EmptyMap) => (ReportsSkipped <=> StatusHasData(d))
            /\ (d # EmptyMap /\ ~StatusHasData(d)) =>
                  ~ReportsSkipped /\ (Terminal => query.calls = 1)
            /\ (d = EmptyMap) => (ReportsSkipped <=> StatusHasData(o))
            /\ ReportsSkipped => pc = "Done" /\ query.calls = 0

\* the desired status is not empty and has no data at the target, the
\* observed status has, and the query ran
C26_Witness ==
    /\ SkipFlagTrue
    /\ StatusOf(req.desired) # EmptyMap
    /\ ~StatusHasData(StatusOf(req.desired))
    /\ StatusHasData(StatusOf(req.observed))
    /\ Terminal
    /\ query.calls = 1
    /\ ~ReportsSkipped

----------------------------------------------------------------------------
(* C30 *)

\* the status this invocation's skip check reads is the one the invocation
\* before it returned
ReceivedPublishedStatus ==
    /\ prev.gen >= 1
    /\ SkipFlagTrue
    /\ DesiredElseObservedStatus = prev.status

\* C30: an invocation that receives the status its predecessor published
\* to, with the same target and the skip flag true, calls graphQuery zero
\* times exactly when the published result is none of null, a nil or empty
\* array, an empty mapping and the empty string; for those it calls it once.
C30_ReinvokeSkipsIffNonEmpty ==
    (ReceivedPublishedStatus /\ Terminal) =>
        /\ query.calls = 0 <=> prev.V \notin (EmptyValues \cup {NilSlice})
        /\ query.calls = 0 <=> ReportsSkipped
        /\ query.calls \in {0, 1}

\* an empty array was published and the next invocation queried again
C30_Witness ==
    /\ ReceivedPublishedStatus
    /\ Terminal
    /\ prev.V = Arr(<<>>)
    /\ StatusOf(req.desired) = EmptyMap
    /\ query.calls = 1

\* a non-empty result was published and the next invocation skipped
C30_WitnessSkipped ==
    /\ ReceivedPublishedStatus
    /\ Terminal
    /\ prev.V = Str("x")
    /\ query.calls = 0

----------------------------------------------------------------------------
(* Concurrent invocations: the gRPC server runs RunFunction of one         *)
(* Function value on a goroutine per request.  Only the statements that    *)
(* touch the Function are kept: the nil check and the assignment of        *)
(* f.graphQuery in parseInputAndCredentials, and the type assertion, the   *)
(* assignment of gq.log and the call in executeQuery.  f.graphQuery is an  *)
(* interface value: its type word and its data word are stored one after   *)
(* the other, and nothing orders them for another goroutine.               *)

NumInvocations == 2

ConcIds == 1..NumInvocations

\* a Function constructed with a collaborator of its own, as the tests do
MockFunction == [typ |-> "Mock", ptr |-> NumInvocations + 1, log |-> {}]

\* everything that belongs to the single invocation and to the harnesses
soloVars == <<req, in, rsp, pc, trace, query, ret, prev, accVars, parseVars>>

InitConc ==
    /\ req = NoRequest
    /\ in = NoInput
    /\ rsp = NoResponse
    /\ pc = "idle"
    /\ trace = <<>>
    /\ query = NoQuery
    /\ ret = "running"
    /\ prev = NoPrev
    /\ AccIdle
    /\ ParseIdle
    /\ fn \in {NewFunction, MockFunction}
    /\ conc \in [ConcIds -> [pc : {"parseInputAndCredentials"}, valid : BOOLEAN,
                             stored : {{}}, typ : {"nil"}, ptr : {0}]]
    /\ access = {}

Accessed(i, field, obj, kind) ==
    access \cup {[who |-> i, field |-> field, obj |-> obj, kind |-> kind]}

\* request.GetInput and getCreds: an invocation that fails here returns
\* before it looks at f.graphQuery
ConcParse(i) ==
    /\ conc[i].pc = "parseInputAndCredentials"
    /\ conc' = [conc EXCEPT ![i].pc = IF conc[i].valid THEN "checkGraphQuery" ELSE "Failed"]
    /\ UNCHANGED <<fn, access, soloVars>>

\* if f.graphQuery == nil: the comparison reads the type word
ConcCheckNil(i) ==
    /\ conc[i].pc = "checkGraphQuery"
    /\ conc' = [conc EXCEPT ![i].pc = IF fn.typ = "nil" THEN "storeGraphQuery"
                                                       ELSE "loadGraphQuery"]
    /\ access' = Accessed(i, "Function.graphQuery", 0, "read")
    /\ UNCHANGED <<fn, soloVars>>

\* f.graphQuery = &GraphQuery{}: one word of the interface value is stored
ConcStore(i, word) ==
    /\ conc[i].pc = "storeGraphQuery"
    /\ word \notin conc[i].stored
    /\ fn' = IF word = "typ" THEN [fn EXCEPT !.typ = "GraphQuery"]
                             ELSE [fn EXCEPT !.ptr = i]
    /\ conc' = [conc EXCEPT
                   ![i].stored = @ \cup {word},
                   ![i].pc = IF conc[i].stored \cup {word} = {"typ", "data"}
                             THEN "loadGraphQuery" ELSE @]
    /\ access' = Accessed(i, "Function.graphQuery", 0, "write")
    /\ UNCHANGED soloVars

\* gq, ok := f.graphQuery.(*GraphQuery)
ConcLoad(i) ==
    /\ conc[i].pc = "loadGraphQuery"
    /\ conc' = [conc EXCEPT ![i].typ = fn.typ, ![i].ptr = fn.ptr,
                            ![i].pc = IF fn.typ = "GraphQuery" THEN "storeLog"
                                                               ELSE "callQuery"]
    /\ access' = Accessed(i, "Function.graphQuery", 0, "read")
    /\ UNCHANGED <<fn, soloVars>>

\* gq.log = f.log: a nil gq is dereferenced
ConcStoreLog(i) ==
    /\ conc[i].pc = "storeLog"
    /\ IF conc[i].ptr = 0
       THEN /\ conc' = [conc EXCEPT ![i].pc = "Panicked"]
            /\ UNCHANGED <<fn, access>>
       ELSE /\ conc' = [conc EXCEPT ![i].pc = "callQuery"]
            /\ fn' = [fn EXCEPT !.log = @ \cup {conc[i].ptr}]
            /\ access' = Accessed(i, "GraphQuery.log", conc[i].ptr, "write")
    /\ UNCHANGED soloVars

\* f.graphQuery.graphQuery(ctx, azureCreds, in): the field is read again and
\* the method of a *GraphQuery reads g.log
ConcCall(i) ==
    /\ conc[i].pc = "callQuery"
    /\ conc' = [conc EXCEPT ![i].typ = fn.typ, ![i].ptr = fn.ptr, ![i].pc = "Done"]
    /\ access' = Accessed(i, "Function.graphQuery", 0, "read")
                 \cup (IF fn.typ = "GraphQuery"
                       THEN {[who |-> i, field |-> "GraphQuery.log",
                              obj |-> fn.ptr, kind |-> "read"]}
                       ELSE {})
    /\ UNCHANGED <<fn, soloVars>>

NextConc ==
    \E i \in ConcIds :
        \/ ConcParse(i)
        \/ ConcCheckNil(i)
        \/ \E word \in {"typ", "data"} : ConcStore(i, word)
        \/ ConcLoad(i)
        \/ ConcStoreLog(i)
        \/ ConcCall(i)

SpecConc == InitConc /\ [][NextConc]_vars

----------------------------------------------------------------------------
(* C25 *)

\* two accesses of one field by different invocations, one of them a write
SharedWrite(a, b) ==
    /\ a.who # b.who
    /\ a.field = b.field
    /\ a.obj = b.obj
    /\ a.kind = "write"

\* C25 as claimed: invocations that run concurrently on one Function share
\* no mutable state.  No field written by one invocation is read or written
\* by another, and every invocation ends as it does when it runs alone: one
\* with input and credentials reaches its query, none panics.
C25_NoSharedMutableState ==
    /\ \A a \in access : \A b \in access : ~SharedWrite(a, b)
    /\ \A i \in DOMAIN conc : conc[i].pc # "Panicked"

====
